---------------------------- MODULE Spec2Model ----------------------------
(***************************************************************************)
(* A model of the WVG web scrapers (mo13k/WVG-Web-Scrapers).               *)
(*                                                                         *)
(* The repository holds independent scraper scripts.  Each one is modelled *)
(* as its own specification over a shared set of variables:                *)
(*                                                                         *)
(*   SpecV3   ImprovedStartupScraper   (ZZZWebScraperWVGv3.py)             *)
(*   SpecV1   StartupFounderScraper    (ZZZWebScraperWVG.py)               *)
(*   SpecV2   AdvancedStartupScraper   (ZZZWebScraperWVGv2.py)             *)
(*   SpecV4   the Playwright script    (ZZZWebScraperWVGv4.py)             *)
(*   SpecCls  the line classifier of ImprovedStartupScraper on its own     *)
(*   SpecVel  VelocityLinkedInScraper  (velocity_scraper.py)               *)
(*                                                                         *)
(* Text is modelled by TLA+ strings and the Python string operations       *)
(* (lower, strip, split, in, join) are computed character by character.    *)
(* A page is a sequence of elements drawn from a small pool; the           *)
(* timestamp field 'scraped_date' of a record is not modelled.             *)
(***************************************************************************)
EXTENDS Integers, Sequences, FiniteSets, TLC

VARIABLES
    pc,                \* position of the running script
    founders_data,     \* self.founders_data: the result list
    file,              \* the records held by the output file
    file_written,      \* whether the output file has been written
    driver,            \* self.driver is set (the browser started)
    max_companies,     \* self.max_companies
    page,              \* the directory page: its elements in document order
    page_text,         \* v3: page_text, the body's visible text
    selIdx,            \* v3: position in company_selectors
    elements,          \* v3: the elements the current selector found
    elemIdx,           \* v3: position in elements[:50]
    found_companies,   \* v3: found_companies of the running call
    text_lines,        \* v3: text_lines of the text fallback
    text_i,            \* v3: i of the text fallback (1-based)
    yielded,           \* v3: selectors with an element that passed the length test
    classified,        \* v3: number of candidates and fallback lines examined
    srcIdx,            \* v1, v2: position in the sequence of scrape_* calls
    filterRuns,        \* v1, v2: calls of filter_waterloo_region so far
    appended,          \* v1, v2: records appended to founders_data so far
    termIdx,           \* v2: position in search_terms (0 before the page is loaded)
    startup_cards,     \* v4: startup_cards of the running scrape function
    cardIdx,           \* v4: position in startup_cards
    data,              \* v4: data of the running scrape function
    dmz_data,          \* v4: dmz_data of main
    attempted,         \* v4: the sources whose listing page was requested
    raised,            \* v4: the exception that ended main, if any
    cand_lines,        \* classifier: lines of the candidate being scanned
    cand_i,            \* classifier: position in cand_lines
    cand_info,         \* classifier: company_name, location, founder_names so far
    anchors,           \* velocity: the a elements of the companies page, in document order
    tried,             \* velocity: the link selectors evaluated so far
    company_links,     \* velocity: company_links of scrape_velocity_companies
    link_i,            \* velocity: position in company_links
    successful_companies,  \* velocity: the success counter
    company_page,      \* velocity: the page process_company has loaded, None before
    company_data,      \* velocity: what process_company is about to return
    companies_data,    \* velocity: self.companies_data
    progress,          \* velocity: the records in velocity_scraper_progress.json
    open_pages,        \* velocity: the browser pages that are open
    logged             \* velocity: the kinds of log message written so far

sharedVars == <<pc, founders_data, file, file_written>>
v3Only == <<max_companies, page, page_text, selIdx, elements, elemIdx,
            found_companies, text_lines, text_i, yielded, classified>>
v3Vars == <<driver, v3Only>>
v1Vars == <<srcIdx, filterRuns, appended>>
v4Vars == <<startup_cards, cardIdx, data, dmz_data, attempted, raised>>
clsVars == <<cand_lines, cand_i, cand_info>>
velVars == <<anchors, tried, company_links, link_i, successful_companies, company_page,
            company_data,
             companies_data, progress, open_pages, logged>>
vars == <<sharedVars, v3Vars, v1Vars, termIdx, v4Vars, clsVars, velVars>>
notV3 == <<v1Vars, termIdx, v4Vars, clsVars, velVars>>
notV1 == <<v3Vars, termIdx, v4Vars, clsVars, velVars>>
notV2 == <<v3Only, v4Vars, clsVars, velVars>>
notV4 == <<founders_data, v3Vars, v1Vars, termIdx, clsVars, velVars>>
notCls == <<founders_data, file, file_written, v3Vars, v1Vars, termIdx, v4Vars, velVars>>
notVel == <<founders_data, driver, page, page_text, selIdx, elements, elemIdx,
            found_companies, text_lines, text_i, yielded, classified, v1Vars, termIdx,
            v4Vars, clsVars>>

---------------------------------------------------------------------------
(* Bounds of the model. *)

MaxPage == 2        \* elements on a modelled page
MaxCap == 2         \* largest max_companies explored
MaxCards == 2       \* listing elements met in one run of a requests/Selenium scraper
MaxListing == 2     \* cards on a listing page of the Playwright script
MaxLines == 3       \* lines of a candidate given to the classifier
MaxAnchors == 3     \* a elements on the Velocity companies page

---------------------------------------------------------------------------
(* Python string operations. *)

Min(S) == CHOOSE m \in S : \A n \in S : m <= n
Max(S) == CHOOSE m \in S : \A n \in S : m >= n

CharAt(s, i) == SubSeq(s, i, i)

UpperCase == "ABCDEFGHIJKLMNOPQRSTUVWXYZ"
LowerCase == "abcdefghijklmnopqrstuvwxyz"

\* one character of str.lower()
LowerChar(c) ==
    IF \E k \in 1..Len(UpperCase) : CharAt(UpperCase, k) = c
    THEN CharAt(LowerCase, CHOOSE k \in 1..Len(UpperCase) : CharAt(UpperCase, k) = c)
    ELSE c

RECURSIVE Lower(_)
Lower(s) ==
    IF s = "" THEN "" ELSE LowerChar(CharAt(s, 1)) \o Lower(SubSeq(s, 2, Len(s)))

IsSpace(c) == c \in {" ", "\n", "\t"}

\* char.isalpha()
IsAlpha(c) ==
    \E k \in 1..Len(UpperCase) : CharAt(UpperCase, k) = c \/ CharAt(LowerCase, k) = c

\* str.strip()
Strip(s) ==
    LET keep == {i \in 1..Len(s) : ~IsSpace(CharAt(s, i))}
    IN  IF keep = {} THEN "" ELSE SubSeq(s, Min(keep), Max(keep))

\* needle in hay
Contains(hay, needle) ==
    \E i \in 1..(Len(hay) - Len(needle) + 1) : SubSeq(hay, i, i + Len(needle) - 1) = needle

\* any(k in s for k in keys)
ContainsAny(s, keys) == \E k \in keys : Contains(s, k)

\* str.startswith(prefix)
StartsWith(s, prefix) == Len(s) >= Len(prefix) /\ SubSeq(s, 1, Len(prefix)) = prefix

\* str.split('\n')
RECURSIVE SplitLines(_)
SplitLines(s) ==
    LET nl == {i \in 1..Len(s) : CharAt(s, i) = "\n"}
    IN  IF nl = {} THEN <<s>>
        ELSE <<SubSeq(s, 1, Min(nl) - 1)>> \o SplitLines(SubSeq(s, Min(nl) + 1, Len(s)))

\* sep.join(parts)
RECURSIVE Join(_, _)
Join(parts, sep) ==
    IF parts = <<>> THEN ""
    ELSE IF Len(parts) = 1 THEN parts[1]
    ELSE parts[1] \o sep \o Join(Tail(parts), sep)

\* seq[:n]
Take(seq, n) == SubSeq(seq, 1, IF Len(seq) < n THEN Len(seq) ELSE n)

\* [f(x) for x in seq if p(x)] for the two shapes the scrapers use
RECURSIVE StrippedNonEmpty(_)
StrippedNonEmpty(seq) ==
    IF seq = <<>> THEN <<>>
    ELSE (IF Strip(Head(seq)) # "" THEN <<Strip(Head(seq))>> ELSE <<>>)
         \o StrippedNonEmpty(Tail(seq))

RECURSIVE SelectSeqBy(_, _)
SelectSeqBy(seq, keep) ==
    IF seq = <<>> THEN <<>>
    ELSE (IF Head(seq) \in keep THEN <<Head(seq)>> ELSE <<>>) \o SelectSeqBy(Tail(seq), keep)

SeqsUpTo(S, n) == UNION {[1..k -> S] : k \in 0..n}

Range(seq) == {seq[i] : i \in 1..Len(seq)}

\* an optional value: None, or Some(t) for a value that was found
None == <<>>
Some(t) == <<t>>

---------------------------------------------------------------------------
(* ImprovedStartupScraper (ZZZWebScraperWVGv3.py): the page and its        *)
(* elements.                                                               *)

company_selectors ==
    << "div:contains('Visit Company')", "div:contains('Our Team')", "article",
       "section", "[class*='card']", "[class*='item']", "[class*='company']",
       "[class*='startup']" >>

\* An element of the directory page: its visible text, the selectors of
\* company_selectors that match it, whether it lies inside main_container,
\* and whether reading its text raises (a stale element reference).
Elem(text, sels, inMain, stale) ==
    [text |-> text, sels |-> sels, inMain |-> inMain, stale |-> stale]

ElementPool ==
    { Elem("Acme Robotics\nB2B\nWaterloo, ON\nJane Doe, Co-Founder & CEO",
           {"article", "[class*='card']"}, TRUE, FALSE),
      Elem("ACME Robotics \nKitchener, ON\nJohn Roe, Founder",
           {"section"}, TRUE, FALSE),
      Elem("Acme Robotics\nGuelph",
           {"div:contains('Visit Company')", "[class*='company']"}, FALSE, FALSE),
      Elem("Beta Labs\nToronto, ON\nCEO Bob Stone",
           {"article"}, TRUE, FALSE),
      Elem("Zeta Labs\nGuelph ON",
           {"[class*='item']"}, TRUE, FALSE),
      Elem("Gamma Works\nCambridge, ON\nVisit Company",
           {"div:contains('Visit Company')", "[class*='startup']"}, TRUE, TRUE) }

MinElementText == 20    \* len(element_text) < 20
ElementLimit == 50      \* elements[:50]
MinNameLen == 2         \* len(line) > 2
MaxNameLen == 100       \* len(line) < 100
MinTextNameLen == 3     \* len(line) > 3 in the text fallback
LookAhead == 10         \* range(i+1, min(i+10, len(text_lines)))

StopWords == {"current", "alumni", "acquired", "visit company", "our team"}
Categories == {"b2b", "b2c", "saas", "ai", "fintech", "healthtech", "edtech"}
Cities == {"toronto", "kitchener", "waterloo", "cambridge", "guelph", "ontario", "on",
           "markham", "etobicoke", "ottawa", "montreal", "vancouver", "calgary"}
Titles == {"ceo", "founder", "co-founder", "president"}
TargetRegions == {"waterloo", "kitchener", "cambridge", "guelph", "hamilton"}
TextStopWords == {"current", "alumni", "acquired", "visit company", "our team",
                  "ai", "b2b", "b2c", "saas"}
TextCities == {"toronto", "kitchener", "waterloo", "cambridge", "guelph", "ontario",
               "markham", "etobicoke", "ottawa"}

\* self.driver.find_element(By.TAG_NAME, "body").text
BodyText(pg) == Join([i \in 1..Len(pg) |-> pg[i].text], "\n")

\* the elements one selector finds, in document order: the :contains()
\* selectors search the whole document by XPath, the others main_container
FindElements(pg, selector) ==
    LET hit(e) == selector \in e.sels
                  /\ (Contains(selector, "contains") \/ e.inMain)
        RECURSIVE pick(_)
        pick(seq) == IF seq = <<>> THEN <<>>
                     ELSE (IF hit(Head(seq)) THEN <<Head(seq)>> ELSE <<>>) \o pick(Tail(seq))
    IN  pick(pg)

---------------------------------------------------------------------------
(* ImprovedStartupScraper: the classification of one element's lines.     *)

NoInfo == [company_name |-> "", location |-> "", founder_names |-> <<>>]

\* mutant of ClassifyLine: the name is assigned again by every later line
\* that qualifies
ClassifyLineReassigns(acc, line) ==
    IF Lower(line) \in StopWords THEN acc
    ELSE IF Len(line) > MinNameLen /\ Len(line) < MaxNameLen
    THEN (IF ~ContainsAny(Lower(line), Categories)
          THEN [acc EXCEPT !.company_name = line]
          ELSE acc)
    ELSE IF ContainsAny(Lower(line), Cities)
    THEN [acc EXCEPT !.location = line]
    ELSE IF ContainsAny(Lower(line), Titles)
    THEN [acc EXCEPT !.founder_names = Append(@, line)]
    ELSE acc

\* ClassifyLine without the role rule of lines 134-135
ClassifyLineNoRoles(acc, line) ==
    IF Lower(line) \in StopWords THEN acc
    ELSE IF acc.company_name = "" /\ Len(line) > MinNameLen /\ Len(line) < MaxNameLen
    THEN (IF ~ContainsAny(Lower(line), Categories)
          THEN [acc EXCEPT !.company_name = line]
          ELSE acc)
    ELSE IF ContainsAny(Lower(line), Cities)
    THEN [acc EXCEPT !.location = line]
    ELSE acc

\* one pass of the loop over lines (lines 118-135)
ClassifyLine(acc, line) ==
    IF Lower(line) \in StopWords THEN acc
    ELSE IF acc.company_name = "" /\ Len(line) > MinNameLen /\ Len(line) < MaxNameLen
    THEN (IF ~ContainsAny(Lower(line), Categories)
          THEN [acc EXCEPT !.company_name = line]
          ELSE acc)
    ELSE IF ContainsAny(Lower(line), Cities)
    THEN [acc EXCEPT !.location = line]
    ELSE IF ContainsAny(Lower(line), Titles)
    THEN [acc EXCEPT !.founder_names = Append(@, line)]
    ELSE acc

RECURSIVE ClassifyLines(_, _)
ClassifyLines(acc, lines) ==
    IF lines = <<>> THEN acc
    ELSE ClassifyLines(ClassifyLine(acc, Head(lines)), Tail(lines))

\* lines 111-135 for one element text
Classify(element_text) ==
    ClassifyLines(NoInfo, StrippedNonEmpty(SplitLines(element_text)))

\* InTargetRegion without the test of line 139: any location is accepted
InTargetRegionAnywhere(info) ==
    /\ info.company_name # ""
    /\ info.location # ""

\* line 138-139: the candidate has a name and a location in the target regions
InTargetRegion(info) ==
    /\ info.company_name # ""
    /\ info.location # ""
    /\ ContainsAny(Lower(info.location), TargetRegions)

\* mutants of AlreadyFound: no check at all; a check that ignores letter case
AlreadyFoundNever(list, company_name) == FALSE

AlreadyFoundIgnoringCase(list, company_name) ==
    \E k \in 1..Len(list) : Lower(list[k].company_name) = Lower(company_name)

\* any(existing['company_name'] == company_name for existing in list)
AlreadyFound(list, company_name) ==
    \E k \in 1..Len(list) : list[k].company_name = company_name

\* lines 142-149
CompanyData(info) ==
    [founder_name |-> Join(info.founder_names, " | "),
     company_name |-> info.company_name,
     location |-> info.location,
     source |-> "DMZ Startup Directory"]

\* mutant of CapReached: an off-by-one comparison
CapReachedLate(list, cap) == Len(list) > cap

\* line 156: len(self.founders_data) >= self.max_companies
CapReached(list, cap) == Len(list) >= cap

\* mutant of NextSelector: the first selector that yields ends the loop
NextSelectorFirstWins(idx, yieldedNow) ==
    IF yieldedNow THEN Len(company_selectors) + 1 ELSE idx + 1

\* the for loop over company_selectors (line 88) moves to the next selector,
\* whether or not the current one yielded candidates
NextSelector(idx, yieldedNow) == idx + 1

---------------------------------------------------------------------------
(* ImprovedStartupScraper: run_improved_scraping, one step per selector,   *)
(* element and fallback line.                                              *)

\* the values of the variables a script does not use
IdleV1 == srcIdx = 1 /\ filterRuns = 0 /\ appended = 0

IdleV2 == termIdx = 0

IdleV4 ==
    /\ startup_cards = <<>> /\ cardIdx = 1 /\ data = <<>> /\ dmz_data = <<>>
    /\ attempted = {} /\ raised = None

IdleCls == cand_lines = <<>> /\ cand_i = 1 /\ cand_info = NoInfo

IdleVel ==
    /\ anchors = <<>> /\ tried = {} /\ company_links = <<>> /\ link_i = 1
    /\ successful_companies = 0 /\ company_page = None /\ company_data = None
    /\ companies_data = <<>>
    /\ progress = <<>> /\ open_pages = {} /\ logged = {}

IdleV3Only ==
    /\ max_companies = 0 /\ page = <<>> /\ page_text = ""
    /\ selIdx = 1 /\ elements = <<>> /\ elemIdx = 1 /\ found_companies = <<>>
    /\ text_lines = <<>> /\ text_i = 1 /\ yielded = {} /\ classified = 0

\* __init__ (lines 11-14) and setup_selenium (lines 16-26)
InitV3 ==
    /\ pc = "v3_start"
    /\ founders_data = <<>>
    /\ file = <<>> /\ file_written = FALSE
    /\ driver \in BOOLEAN
    /\ max_companies \in 0..MaxCap
    /\ page \in SeqsUpTo(ElementPool, MaxPage)
    /\ page_text = ""
    /\ selIdx = 1 /\ elements = <<>> /\ elemIdx = 1
    /\ found_companies = <<>>
    /\ text_lines = <<>> /\ text_i = 1
    /\ yielded = {} /\ classified = 0
    /\ IdleV1 /\ IdleV2 /\ IdleV4 /\ IdleCls /\ IdleVel

\* lines 31-43: no driver returns at once; otherwise the page is loaded and
\* its body text read
V3Start ==
    /\ pc = "v3_start"
    /\ IF ~driver
       THEN pc' = "v3_save" /\ UNCHANGED page_text
       ELSE pc' = "v3_selectors" /\ page_text' = BodyText(page)
    /\ UNCHANGED <<founders_data, file, file_written, driver, max_companies, page,
                   selIdx, elements, elemIdx, found_companies, text_lines, text_i,
                   yielded, classified>>
    /\ UNCHANGED notV3

\* lines 35 and 209-210: self.driver.get raises, the outer handler prints
V3GetFails ==
    /\ pc = "v3_start"
    /\ driver
    /\ pc' = "v3_save"
    /\ UNCHANGED <<founders_data, file, file_written, v3Vars>>
    /\ UNCHANGED notV3

\* lines 88-102: the selector's elements are looked up
V3FindElements ==
    /\ pc = "v3_selectors"
    /\ selIdx <= Len(company_selectors)
    /\ LET found == FindElements(page, company_selectors[selIdx])
       IN  IF found = <<>>
           THEN /\ selIdx' = NextSelector(selIdx, FALSE)
                /\ UNCHANGED <<pc, elements, elemIdx>>
           ELSE /\ pc' = "v3_elements"
                /\ elements' = found
                /\ elemIdx' = 1
                /\ UNCHANGED selIdx
    /\ UNCHANGED <<founders_data, file, file_written, driver, max_companies, page,
                   page_text, found_companies, text_lines, text_i, yielded, classified>>
    /\ UNCHANGED notV3

\* lines 163-165: the lookup raises, the selector is given up
V3SelectorError ==
    /\ pc = "v3_selectors"
    /\ selIdx <= Len(company_selectors)
    /\ selIdx' = NextSelector(selIdx, FALSE)
    /\ UNCHANGED <<sharedVars, driver, max_companies, page, page_text, elements,
                   elemIdx, found_companies, text_lines, text_i, yielded, classified>>
    /\ UNCHANGED notV3

\* V3ProcessElement skipping also an element of exactly the threshold length
V3ProcessElementAboveThreshold ==
    /\ pc = "v3_elements"
    /\ elemIdx <= Len(Take(elements, ElementLimit))
    /\ LET element == elements[elemIdx]
           element_text == Strip(element.text)
           info == Classify(element_text)
       IN  IF element.stale \/ Len(element_text) <= MinElementText
           THEN /\ elemIdx' = elemIdx + 1
                /\ UNCHANGED <<pc, founders_data, found_companies, yielded, classified>>
           ELSE /\ yielded' = yielded \cup {selIdx}
                /\ classified' = classified + 1
                /\ IF InTargetRegion(info) /\ ~AlreadyFound(found_companies, info.company_name)
                   THEN /\ found_companies' = Append(found_companies, CompanyData(info))
                        /\ founders_data' = Append(founders_data, CompanyData(info))
                        /\ IF CapReached(founders_data', max_companies)
                           THEN pc' = "v3_save" /\ UNCHANGED elemIdx
                           ELSE elemIdx' = elemIdx + 1 /\ UNCHANGED pc
                   ELSE /\ elemIdx' = elemIdx + 1
                        /\ UNCHANGED <<pc, founders_data, found_companies>>
    /\ UNCHANGED <<file, file_written, driver, max_companies, page, page_text, selIdx,
                   elements, text_lines, text_i>>
    /\ UNCHANGED notV3

\* lines 104-161: one element of elements[:50]
V3ProcessElement ==
    /\ pc = "v3_elements"
    /\ elemIdx <= Len(Take(elements, ElementLimit))
    /\ LET element == elements[elemIdx]
           element_text == Strip(element.text)
           info == Classify(element_text)
       IN  IF element.stale \/ Len(element_text) < MinElementText
           THEN /\ elemIdx' = elemIdx + 1
                /\ UNCHANGED <<pc, founders_data, found_companies, yielded, classified>>
           ELSE /\ yielded' = yielded \cup {selIdx}
                /\ classified' = classified + 1
                /\ IF InTargetRegion(info) /\ ~AlreadyFound(found_companies, info.company_name)
                   THEN /\ found_companies' = Append(found_companies, CompanyData(info))
                        /\ founders_data' = Append(founders_data, CompanyData(info))
                        /\ IF CapReached(founders_data', max_companies)
                           THEN pc' = "v3_save" /\ UNCHANGED elemIdx
                           ELSE elemIdx' = elemIdx + 1 /\ UNCHANGED pc
                   ELSE /\ elemIdx' = elemIdx + 1
                        /\ UNCHANGED <<pc, founders_data, found_companies>>
    /\ UNCHANGED <<file, file_written, driver, max_companies, page, page_text, selIdx,
                   elements, text_lines, text_i>>
    /\ UNCHANGED notV3

\* the element loop of one selector ends: on to the next selector
V3SelectorDone ==
    /\ pc = "v3_elements"
    /\ elemIdx > Len(Take(elements, ElementLimit))
    /\ pc' = "v3_selectors"
    /\ selIdx' = NextSelector(selIdx, selIdx \in yielded)
    /\ UNCHANGED <<founders_data, file, file_written, driver, max_companies, page,
                   page_text, elements, elemIdx, found_companies, text_lines, text_i,
                   yielded, classified>>
    /\ UNCHANGED notV3

\* V3AfterSelectors starting the text fallback only when no selector yielded a
\* candidate
V3AfterSelectorsNoCandidates ==
    /\ pc = "v3_selectors"
    /\ selIdx > Len(company_selectors)
    /\ IF yielded = {}
       THEN /\ pc' = "v3_text"
            /\ text_lines' = SplitLines(page_text)
            /\ text_i' = 1
       ELSE /\ pc' = "v3_save"
            /\ UNCHANGED <<text_lines, text_i>>
    /\ UNCHANGED <<founders_data, file, file_written, driver, max_companies, page,
                   page_text, selIdx, elements, elemIdx, found_companies, yielded,
                   classified>>
    /\ UNCHANGED notV3

\* lines 167-176: after the last selector; nothing found starts the text fallback
V3AfterSelectors ==
    /\ pc = "v3_selectors"
    /\ selIdx > Len(company_selectors)
    /\ IF Len(found_companies) = 0
       THEN /\ pc' = "v3_text"
            /\ text_lines' = SplitLines(page_text)
            /\ text_i' = 1
       ELSE /\ pc' = "v3_save"
            /\ UNCHANGED <<text_lines, text_i>>
    /\ UNCHANGED <<founders_data, file, file_written, driver, max_companies, page,
                   page_text, selIdx, elements, elemIdx, found_companies, yielded,
                   classified>>
    /\ UNCHANGED notV3

\* lines 186-192: the first of the next lines that names a city
TextLocation(lines, i) ==
    LET last == IF i + LookAhead - 1 < Len(lines) THEN i + LookAhead - 1 ELSE Len(lines)
        hits == {j \in (i + 1)..last : ContainsAny(Lower(Strip(lines[j])), TextCities)}
    IN  IF hits = {} THEN "" ELSE Strip(lines[Min(hits)])

\* lines 181-184: the line may be a company name
TextNameLine(line) ==
    /\ Len(line) > MinTextNameLen
    /\ Len(line) < MaxNameLen
    /\ Lower(line) \notin TextStopWords
    /\ ~StartsWith(line, "#")
    /\ \E k \in 1..Len(line) : IsAlpha(CharAt(line, k))

\* lines 177-207: one pass of the while loop
V3TextLine ==
    /\ pc = "v3_text"
    /\ text_i <= Len(text_lines)
    /\ ~CapReached(founders_data, max_companies)
    /\ LET line == Strip(text_lines[text_i])
           location == TextLocation(text_lines, text_i)
       IN  IF /\ TextNameLine(line)
              /\ location # ""
              /\ ContainsAny(Lower(location), TargetRegions)
              /\ ~AlreadyFound(founders_data, line)
           THEN founders_data' = Append(founders_data,
                    [founder_name |-> "", company_name |-> line,
                     location |-> location, source |-> "DMZ Startup Directory"])
           ELSE UNCHANGED founders_data
    /\ text_i' = text_i + 1
    /\ classified' = classified + 1
    /\ UNCHANGED <<pc, file, file_written, driver, max_companies, page, page_text,
                   selIdx, elements, elemIdx, found_companies, text_lines, yielded>>
    /\ UNCHANGED notV3

\* line 177: the while condition fails
V3TextDone ==
    /\ pc = "v3_text"
    /\ ~(text_i <= Len(text_lines) /\ ~CapReached(founders_data, max_companies))
    /\ pc' = "v3_save"
    /\ UNCHANGED <<founders_data, file, file_written, v3Vars>>
    /\ UNCHANGED notV3

\* save_to_text (lines 426-465), called at line 484
V3Save ==
    /\ pc = "v3_save"
    /\ pc' = "v3_done"
    /\ IF founders_data = <<>>
       THEN UNCHANGED <<file, file_written>>
       ELSE file' = founders_data /\ file_written' = TRUE
    /\ UNCHANGED <<founders_data, v3Vars, notV3>>

NextV3 ==
    \/ V3Start
    \/ V3GetFails
    \/ V3FindElements
    \/ V3SelectorError
    \/ V3ProcessElement
    \/ V3SelectorDone
    \/ V3AfterSelectors
    \/ V3TextLine
    \/ V3TextDone
    \/ V3Save

SpecV3 == InitV3 /\ [][NextV3]_vars

---------------------------------------------------------------------------
(* StartupFounderScraper (ZZZWebScraperWVG.py): listing elements and       *)
(* extract_founder_info.                                                   *)

\* An optional text: <<>> when the element is not found, <<t>> when it is.
\* A listing element of a fetched page: the text of its first heading, of
\* its first div whose class matches company|startup|name and of its first
\* div whose class matches founder|ceo|director, its other text, the hrefs
\* of its links in document order, and whether handling it raises.
Card(heading, name_div, founder_div, other, links, broken) ==
    [heading |-> heading, name_div |-> name_div, founder_div |-> founder_div,
     other |-> other, links |-> links, broken |-> broken]

CardPool ==
    { Card(Some(" Waterloo Widgets "), None, Some("Ann Lee"), "",
           <<"mailto:ann@ww.ca", "https://linkedin.com/in/ann", "https://ww.ca">>, FALSE),
      Card(None, Some("Acme Robotics"), None, "Kitchener startup",
           <<"https://x.com/acme", "https://acme.io">>, FALSE),
      Card(None, None, None, "Toronto news", <<>>, FALSE),
      Card(Some("Gamma Works"), None, None, "Guelph", <<>>, TRUE) }

\* the sources of run_scraping, in call order (lines 231-234)
V1Sources == <<"Velocity Incubator", "Communitech", "BetaKit", "Innovation Guelph">>

\* element.get_text()
CardText(card) ==
    Join(card.heading \o card.name_div \o card.founder_div \o <<card.other>>, "")

\* the first href that contains one of the patterns (element.find('a', href=...))
FirstLink(links, patterns) ==
    LET hits == {k \in 1..Len(links) : ContainsAny(links[k], patterns)}
    IN  IF hits = {} THEN None ELSE Some(links[Min(hits)])

\* str.replace(old, '')
RECURSIVE RemoveAll(_, _)
RemoveAll(s, old) ==
    IF Len(s) < Len(old) THEN s
    ELSE IF StartsWith(s, old) THEN RemoveAll(SubSeq(s, Len(old) + 1, Len(s)), old)
    ELSE CharAt(s, 1) \o RemoveAll(SubSeq(s, 2, Len(s)), old)

SocialHosts == {"linkedin.com", "twitter.com", "x.com"}

\* lines 137-158: the contact_info dictionary
ContactInfo(card) ==
    LET email == FirstLink(card.links, {"mailto:"})
        linkedin == FirstLink(card.links, {"linkedin.com"})
        twitter == FirstLink(card.links, {"twitter.com", "x.com"})
        http == FirstLink(card.links, {"http"})
        website == IF http # None /\ ~ContainsAny(http[1], SocialHosts) THEN http ELSE None
        value == [email |-> IF email = None THEN None ELSE Some(RemoveAll(email[1], "mailto:")),
                  linkedin |-> linkedin, twitter |-> twitter, website |-> website]
        keys == {k \in {"email", "linkedin", "twitter", "website"} : value[k] # None}
    IN  [k \in keys |-> value[k][1]]

\* lines 160-161: the record is returned only with a company or a founder name
HasMeaningfulData(company_name, founder_name) == company_name # "" \/ founder_name # ""

\* extract_founder_info (lines 122-173): <<record>>, or <<>> for None
ExtractFounderInfo(card, source) ==
    LET company_elem == IF card.heading # None THEN card.heading ELSE card.name_div
        company_name == IF company_elem # None THEN Strip(company_elem[1]) ELSE ""
        founder_name == IF card.founder_div # None THEN Strip(card.founder_div[1]) ELSE ""
    IN  IF card.broken THEN <<>>
        ELSE IF HasMeaningfulData(company_name, founder_name)
        THEN << [founder_name |-> founder_name, company_name |-> company_name,
                 source |-> source, contact_info |-> ContactInfo(card)] >>
        ELSE <<>>

RegionWords == {"waterloo", "kitchener", "cambridge", "guelph"}

\* the loop of one scrape_* method over the elements of its page
\* (lines 48-51, 69-72, 90-96, 114-117); scrape_betakit keeps the articles
\* that mention the region
RECURSIVE ScrapeCards(_, _)
ScrapeCards(cards, source) ==
    IF cards = <<>> THEN <<>>
    ELSE (IF source = "BetaKit" /\ ~ContainsAny(Lower(CardText(Head(cards))), RegionWords)
          THEN <<>>
          ELSE ExtractFounderInfo(Head(cards), source))
         \o ScrapeCards(Tail(cards), source)

waterloo_keywords == {"waterloo", "kitchener", "cambridge", "guelph", "kw", "kw region"}

\* the test of filter_waterloo_region on one record (lines 182-183)
InWaterlooRegion(founder) ==
    ContainsAny(Lower(founder.company_name \o " " \o founder.source), waterloo_keywords)

\* mutant of FilterWaterlooRegion: kept records are inserted at the front
RECURSIVE FilterWaterlooRegionReversed(_)
FilterWaterlooRegionReversed(records) ==
    IF records = <<>> THEN <<>>
    ELSE FilterWaterlooRegionReversed(Tail(records))
         \o (IF InWaterlooRegion(Head(records)) THEN <<Head(records)>> ELSE <<>>)

\* filter_waterloo_region (lines 175-186): the new value of founders_data
RECURSIVE FilterWaterlooRegion(_)
FilterWaterlooRegion(records) ==
    IF records = <<>> THEN <<>>
    ELSE (IF InWaterlooRegion(Head(records)) THEN <<Head(records)>> ELSE <<>>)
         \o FilterWaterlooRegion(Tail(records))

---------------------------------------------------------------------------
(* StartupFounderScraper: run_scraping, one step per source.               *)

\* __init__ (lines 14-16)
InitV1 ==
    /\ pc = "v1_scrape"
    /\ founders_data = <<>>
    /\ file = <<>> /\ file_written = FALSE
    /\ srcIdx = 1 /\ filterRuns = 0 /\ appended = 0
    /\ driver = FALSE /\ IdleV3Only /\ IdleV2 /\ IdleV4 /\ IdleCls /\ IdleVel

\* one scrape_* method whose page is fetched (lines 35-120)
V1ScrapeSource ==
    /\ pc = "v1_scrape"
    /\ srcIdx <= Len(V1Sources)
    /\ \E cards \in SeqsUpTo(CardPool, MaxCards) :
          /\ Len(cards) + appended <= MaxCards
          /\ LET got == ScrapeCards(cards, V1Sources[srcIdx])
             IN  /\ founders_data' = founders_data \o got
                 /\ appended' = appended + Len(got)
    /\ srcIdx' = srcIdx + 1
    /\ UNCHANGED <<pc, file, file_written, filterRuns, notV1>>

\* one scrape_* method whose requests.get or raise_for_status raises: the
\* handler prints and the method returns (lines 53-54, 74-75, 98-99, 119-120)
V1FetchFails ==
    /\ pc = "v1_scrape"
    /\ srcIdx <= Len(V1Sources)
    /\ srcIdx' = srcIdx + 1
    /\ UNCHANGED <<pc, founders_data, file, file_written, filterRuns, appended, notV1>>

\* line 237: filter_waterloo_region, after the last source
V1Filter ==
    /\ pc = "v1_scrape"
    /\ srcIdx > Len(V1Sources)
    /\ founders_data' = FilterWaterlooRegion(founders_data)
    /\ filterRuns' = filterRuns + 1
    /\ pc' = "v1_save"
    /\ UNCHANGED <<file, file_written, srcIdx, appended, notV1>>

\* line 240: save_to_text (lines 188-223)
V1Save ==
    /\ pc = "v1_save"
    /\ pc' = "v1_done"
    /\ IF founders_data = <<>>
       THEN UNCHANGED <<file, file_written>>
       ELSE file' = founders_data /\ file_written' = TRUE
    /\ UNCHANGED <<founders_data, v1Vars, notV1>>

\* the run is interrupted before it has finished: the finally clause of
\* lines 259-262 cleans up and nothing else runs
V1Abort ==
    /\ pc \in {"v1_scrape", "v1_save"}
    /\ pc' = "v1_aborted"
    /\ UNCHANGED <<founders_data, file, file_written, v1Vars, notV1>>

NextV1 ==
    \/ V1ScrapeSource
    \/ V1FetchFails
    \/ V1Filter
    \/ V1Save
    \/ V1Abort

SpecV1 == InitV1 /\ [][NextV1]_vars

---------------------------------------------------------------------------
(* AdvancedStartupScraper (ZZZWebScraperWVGv2.py): listing elements and    *)
(* the five extractors.                                                    *)

\* A Selenium element of the AngelList or F6S listing: the text of its first
\* descendant matching the name selectors, of its first descendant matching
\* the founder selectors (None when find_element finds nothing and raises),
\* and the hrefs of its links in document order.
Listing(name, founder, links) == [name |-> name, founder |-> founder, links |-> links]

ListingPool ==
    { Listing(Some("Waterloo Widgets"), Some("Ann Lee "), <<"https://ww.ca">>),
      Listing(Some(" "), Some(""), <<"https://angel.co/company/stealth">>),
      Listing(Some("Beta Labs"), None, <<"https://beta.io">>) }

\* the sources of run_advanced_scraping, in call order (lines 458-462)
V2Sources == <<"AngelList", "F6S", "Startup Ecosystem Canada", "Velocity Fund",
               "DMZ Startup Directory">>

\* line 51
search_terms == <<"Waterloo", "Kitchener", "Cambridge", "Guelph">>

\* mutant of DriverSources: no method tests self.driver
DriverSourcesNone == {}

\* the sources whose methods return at once without a driver (lines 44, 82, 147)
DriverSources == {"AngelList", "F6S", "DMZ Startup Directory"}

\* the body shared by extract_angel_list_info and extract_f6s_info: each
\* find_element raises when nothing matches and the handler returns None;
\* the record is returned whatever the two names are
ExtractListing(el, source) ==
    LET website == FirstLink(el.links, {"http"})
    IN  IF el.name = None \/ el.founder = None \/ website = None
        THEN <<>>
        ELSE << [founder_name |-> Strip(el.founder[1]),
                 company_name |-> Strip(el.name[1]),
                 source |-> source,
                 contact_info |-> [website |-> website[1]]] >>

\* extract_angel_list_info (lines 164-197)
ExtractAngelListInfo(el) == ExtractListing(el, "AngelList")

\* extract_f6s_info (lines 199-232)
ExtractF6sInfo(el) == ExtractListing(el, "F6S")

\* a dictionary holding the keys whose value was found
DictOf(value, allKeys) ==
    LET keys == {k \in allKeys : value[k] # None}
    IN  [k \in keys |-> value[k][1]]

\* extract_ecosystem_info (lines 234-279)
ExtractEcosystemInfo(card) ==
    LET company_elem == IF card.heading # None THEN card.heading ELSE card.name_div
        company_name == IF company_elem # None THEN Strip(company_elem[1]) ELSE ""
        founder_name == IF card.founder_div # None THEN Strip(card.founder_div[1]) ELSE ""
        email == FirstLink(card.links, {"mailto:"})
        http == FirstLink(card.links, {"http"})
        value == [email |-> IF email = None THEN None ELSE Some(RemoveAll(email[1], "mailto:")),
                  linkedin |-> FirstLink(card.links, {"linkedin.com"}),
                  website |-> IF http # None /\ ~ContainsAny(http[1], SocialHosts)
                              THEN http ELSE None]
    IN  IF card.broken THEN <<>>
        ELSE IF company_name # "" \/ founder_name # ""
        THEN << [founder_name |-> founder_name, company_name |-> company_name,
                 source |-> "Startup Ecosystem Canada",
                 contact_info |-> DictOf(value, {"email", "linkedin", "website"})] >>
        ELSE <<>>

\* extract_velocity_fund_info (lines 281-316)
ExtractVelocityFundInfo(card) ==
    LET company_elem == IF card.heading # None THEN card.heading ELSE card.name_div
        company_name == IF company_elem # None THEN Strip(company_elem[1]) ELSE ""
        founder_name == IF card.founder_div # None THEN Strip(card.founder_div[1]) ELSE ""
        value == [website |-> FirstLink(card.links, {"http"})]
    IN  IF card.broken THEN <<>>
        ELSE IF company_name # "" \/ founder_name # ""
        THEN << [founder_name |-> founder_name, company_name |-> company_name,
                 source |-> "Velocity Fund",
                 contact_info |-> DictOf(value, {"website"})] >>
        ELSE <<>>

\* line 325
name_selectors == <<"h1", "h2", "h3", "h4", "h5", "h6",
                    "[class*='company-name']", "[class*='startup-name']">>

\* line 338
team_selectors == <<"[class*='team']", "[class*='founder']", "[class*='member']", "p">>

\* A Selenium element of the DMZ directory: for each name selector the text
\* of its first match (None when there is none), for each team selector the
\* texts of its matches, the text of the first location element and the
\* hrefs of the links.
DmzElem(names, team, location, links) ==
    [names |-> names, team |-> team, location |-> location, links |-> links]

OnlyName(selector, text) ==
    [k \in 1..Len(name_selectors) |-> IF name_selectors[k] = selector THEN Some(text) ELSE None]

DmzPool ==
    { DmzElem(OnlyName("h1", "Beta Labs"),
              << <<>>, <<>>, <<>>, <<"Bob Stone, Founder & CEO", "We build labs">> >>,
              Some("Kitchener, ON"), <<"https://beta.io">>),
      DmzElem(OnlyName("h1", "Maple Pay"),
              << <<"Li Wei, CEO">>, <<>>, <<>>, <<"Li Wei, CEO">> >>,
              Some("Toronto, ON"), <<"https://linkedin.com/company/maple">>),
      DmzElem([OnlyName("h2", "Waterloo Widgets") EXCEPT ![1] = Some(" ")],
              << <<>>, <<>>, <<>>, <<>> >>,
              Some(" Waterloo, ON "), <<>>),
      DmzElem(OnlyName("h3", "Gamma Works"),
              << <<>>, <<>>, <<>>, <<"Our story">> >>,
              None, <<>>),
      DmzElem(OnlyName("h2", "Delta Grid"),
              << <<>>, <<"Dan Poe, Founder">>, <<>>, <<>> >>,
              Some("Guelph, ON"), <<"https://deltagrid.ca">>) }

\* lines 322-332: the loop over name_selectors inside one try; a selector
\* that matches nothing makes find_element raise and ends the loop
RECURSIVE DmzCompanyName(_, _)
DmzCompanyName(names, k) ==
    IF k > Len(name_selectors) THEN ""
    ELSE IF names[k] = None THEN ""
    ELSE IF Strip(names[k][1]) # "" THEN Strip(names[k][1])
    ELSE DmzCompanyName(names, k + 1)

FounderKeywords == {"founder", "ceo", "co-founder"}

\* lines 342-345: the texts of one selector's elements that name a founder
RECURSIVE TeamTexts(_)
TeamTexts(texts) ==
    IF texts = <<>> THEN <<>>
    ELSE (IF Strip(Head(texts)) # "" /\ ContainsAny(Lower(Strip(Head(texts))), FounderKeywords)
          THEN <<Strip(Head(texts))>> ELSE <<>>)
         \o TeamTexts(Tail(texts))

\* lines 335-349: founder_names over all team selectors
RECURSIVE DmzFounderNames(_, _)
DmzFounderNames(team, k) ==
    IF k > Len(team_selectors) THEN <<>>
    ELSE TeamTexts(team[k]) \o DmzFounderNames(team, k + 1)

DmzSocialHosts == {"linkedin.com", "twitter.com", "x.com", "facebook.com"}

\* extract_dmz_info (lines 318-398)
ExtractDmzInfo(el) ==
    LET company_name == DmzCompanyName(el.names, 1)
        founder_name == Join(DmzFounderNames(el.team, 1), " | ")
        location == IF el.location # None THEN Strip(el.location[1]) ELSE ""
        http == FirstLink(el.links, {"http"})
        value == [website |-> IF http # None /\ ~ContainsAny(http[1], DmzSocialHosts)
                              THEN http ELSE None,
                  linkedin |-> FirstLink(el.links, {"linkedin.com"})]
    IN  IF company_name # "" \/ founder_name # ""
        THEN << [founder_name |-> founder_name, company_name |-> company_name,
                 location |-> location, source |-> "DMZ Startup Directory",
                 contact_info |-> DictOf(value, {"website", "linkedin"})] >>
        ELSE <<>>

\* the extractor each scrape_* method applies to the elements it found
ExtractV2(el, source) ==
    CASE source = "AngelList" -> ExtractAngelListInfo(el)
      [] source = "F6S" -> ExtractF6sInfo(el)
      [] source = "Startup Ecosystem Canada" -> ExtractEcosystemInfo(el)
      [] source = "Velocity Fund" -> ExtractVelocityFundInfo(el)
      [] source = "DMZ Startup Directory" -> ExtractDmzInfo(el)

\* the elements a source's page can hold
PoolV2(source) ==
    CASE source \in {"AngelList", "F6S"} -> ListingPool
      [] source \in {"Startup Ecosystem Canada", "Velocity Fund"} -> CardPool
      [] source = "DMZ Startup Directory" -> DmzPool

\* the loop of one scrape_* method over the elements it found
\* (lines 65-68, 91-94, 112-115, 133-136, 156-159)
RECURSIVE ScrapeElementsV2(_, _)
ScrapeElementsV2(els, source) ==
    IF els = <<>> THEN <<>>
    ELSE ExtractV2(Head(els), source) \o ScrapeElementsV2(Tail(els), source)

\* line 402
waterloo_keywords_v2 == {"waterloo", "kitchener", "cambridge", "guelph", "kw", "kw region"}

\* the test of filter_waterloo_region on one record (lines 407-408)
InWaterlooRegionV2(founder) ==
    ContainsAny(Lower(founder.company_name \o " " \o founder.source), waterloo_keywords_v2)

\* filter_waterloo_region (lines 400-411): the new value of founders_data
RECURSIVE FilterWaterlooRegionV2(_)
FilterWaterlooRegionV2(records) ==
    IF records = <<>> THEN <<>>
    ELSE (IF InWaterlooRegionV2(Head(records)) THEN <<Head(records)>> ELSE <<>>)
         \o FilterWaterlooRegionV2(Tail(records))

---------------------------------------------------------------------------
(* AdvancedStartupScraper: run_advanced_scraping, one step per source and  *)
(* per AngelList search term.                                              *)

\* __init__ (lines 16-18) and setup_selenium (lines 20-36)
InitV2 ==
    /\ pc = "v2_scrape"
    /\ founders_data = <<>>
    /\ file = <<>> /\ file_written = FALSE
    /\ driver \in BOOLEAN
    /\ IdleV3Only /\ IdleV1 /\ IdleV2 /\ IdleV4 /\ IdleCls /\ IdleVel

\* lines 44-45, 82-83, 147-148: without a driver the method returns
V2NoDriver ==
    /\ pc = "v2_scrape"
    /\ srcIdx <= Len(V2Sources)
    /\ V2Sources[srcIdx] \in DriverSources
    /\ ~driver
    /\ srcIdx' = srcIdx + 1
    /\ UNCHANGED <<pc, founders_data, file, file_written, driver, filterRuns,
                   appended, termIdx, notV2>>

V2CanFetch ==
    /\ pc = "v2_scrape"
    /\ srcIdx <= Len(V2Sources)
    /\ V2Sources[srcIdx] \in DriverSources => driver

\* lines 47-51: the AngelList page is loaded
V2AngelOpen ==
    /\ V2CanFetch
    /\ V2Sources[srcIdx] = "AngelList"
    /\ termIdx = 0
    /\ termIdx' = 1
    /\ UNCHANGED <<pc, founders_data, file, file_written, driver, v1Vars, notV2>>

\* lines 54-68: one search term whose search succeeds
V2AngelSearch ==
    /\ V2CanFetch
    /\ V2Sources[srcIdx] = "AngelList"
    /\ termIdx \in 1..Len(search_terms)
    /\ \E companies \in SeqsUpTo(ListingPool, MaxCards) :
          /\ Len(companies) + appended <= MaxCards
          /\ LET got == ScrapeElementsV2(companies, "AngelList")
             IN  /\ founders_data' = founders_data \o got
                 /\ appended' = appended + Len(got)
    /\ termIdx' = termIdx + 1
    /\ srcIdx' = IF termIdx = Len(search_terms) THEN srcIdx + 1 ELSE srcIdx
    /\ UNCHANGED <<pc, file, file_written, driver, filterRuns, notV2>>

\* lines 70-71: the search box is missing or the search raises; the term
\* is given up and the loop goes on
V2AngelSearchFails ==
    /\ V2CanFetch
    /\ V2Sources[srcIdx] = "AngelList"
    /\ termIdx \in 1..Len(search_terms)
    /\ termIdx' = termIdx + 1
    /\ srcIdx' = IF termIdx = Len(search_terms) THEN srcIdx + 1 ELSE srcIdx
    /\ UNCHANGED <<pc, founders_data, file, file_written, driver, filterRuns,
                   appended, notV2>>

\* scrape_f6s, scrape_startup_ecosystem, scrape_velocity_fund and scrape_dmz
\* when the page is fetched (lines 76-162)
V2ScrapeSource ==
    /\ V2CanFetch
    /\ V2Sources[srcIdx] # "AngelList"
    /\ \E els \in SeqsUpTo(PoolV2(V2Sources[srcIdx]), MaxCards) :
          /\ Len(els) + appended <= MaxCards
          /\ LET got == ScrapeElementsV2(els, V2Sources[srcIdx])
             IN  /\ founders_data' = founders_data \o got
                 /\ appended' = appended + Len(got)
    /\ srcIdx' = srcIdx + 1
    /\ UNCHANGED <<pc, file, file_written, driver, filterRuns, termIdx, notV2>>

\* driver.get, requests.get or raise_for_status raises: the handler prints
\* and the method returns (lines 73-74, 96-97, 117-118, 138-139, 161-162)
V2FetchFails ==
    /\ V2CanFetch
    /\ V2Sources[srcIdx] = "AngelList" => termIdx = 0
    /\ srcIdx' = srcIdx + 1
    /\ UNCHANGED <<pc, founders_data, file, file_written, driver, filterRuns,
                   appended, termIdx, notV2>>

\* line 465: filter_waterloo_region, after the last source
V2Filter ==
    /\ pc = "v2_scrape"
    /\ srcIdx > Len(V2Sources)
    /\ founders_data' = FilterWaterlooRegionV2(founders_data)
    /\ filterRuns' = filterRuns + 1
    /\ pc' = "v2_save"
    /\ UNCHANGED <<file, file_written, driver, srcIdx, appended, termIdx, notV2>>

\* line 468: save_to_text (lines 413-450)
V2Save ==
    /\ pc = "v2_save"
    /\ pc' = "v2_done"
    /\ IF founders_data = <<>>
       THEN UNCHANGED <<file, file_written>>
       ELSE file' = founders_data /\ file_written' = TRUE
    /\ UNCHANGED <<founders_data, driver, v1Vars, termIdx, notV2>>

NextV2 ==
    \/ V2NoDriver
    \/ V2AngelOpen
    \/ V2AngelSearch
    \/ V2AngelSearchFails
    \/ V2ScrapeSource
    \/ V2FetchFails
    \/ V2Filter
    \/ V2Save

SpecV2 == InitV2 /\ [][NextV2]_vars

---------------------------------------------------------------------------
(* The Playwright script (ZZZWebScraperWVGv4.py): scrape_dmz,              *)
(* scrape_velocity and main.  Nothing in the script catches an exception:  *)
(* whatever is raised leaves main before the CSV file is written.          *)

\* A card of a listing page: the text of its title element (None when
\* query_selector finds none), its href (None when the link is missing) and
\* the texts of the p, li, span and div elements of its detail page.
DirCard(title, href, detail) == [title |-> title, href |-> href, detail |-> detail]

DirCardPool ==
    { DirCard(Some(" Acme Robotics "), Some("/startups/acme"),
              <<"Jane Doe, Co-Founder", "Founder: John Roe", "About us">>),
      DirCard(Some("Gamma Works"), Some("https://gamma.example/"),
              <<"founder of things", "Mary Major, Founder", "Mary Major, Founder">>),
      DirCard(None, Some("https://beta.example/"), <<"Bob Stone, Founder">>),
      DirCard(Some("Delta"), None, <<>>) }

\* the sources of main, in call order (lines 80-81)
V4Sources == <<"dmz", "velocity">>

\* lines 16-17
DmzBase == "https://dmz.torontomu.ca"

\* lines 25-28 and 61-64: the texts that name a founder, in page order
RECURSIVE FounderTexts(_)
FounderTexts(texts) ==
    IF texts = <<>> THEN <<>>
    ELSE (IF Contains(Strip(Head(texts)), "Founder") \/ Contains(Strip(Head(texts)), "Co-Founder")
          THEN <<Strip(Head(texts))>> ELSE <<>>)
         \o FounderTexts(Tail(texts))

\* the orders in which iterating set(founders) can deliver its members
SetOrders(S) ==
    {s \in [1..Cardinality(S) -> S] : \A i, j \in 1..Cardinality(S) : s[i] = s[j] => i = j}

\* lines 30 and 66: the values ", ".join(set(founders)) can have
JoinedFounders(card) == {Join(s, ", ") : s \in SetOrders(Range(FounderTexts(card.detail)))}

\* lines 13-17: what the card's own elements raise in scrape_dmz
DmzCardRaises(card) == card.title = None \/ card.href = None

\* lines 47-50: the cards scrape_velocity passes over
VelocitySkips(card) == card.title = None \/ card.href = None

\* line 56: page.goto needs an absolute URL
GotoRejects(link) == ~StartsWith(link, "http")

\* the link scrape_dmz visits (lines 14-17)
DmzLink(card) ==
    IF StartsWith(card.href[1], "/") THEN DmzBase \o card.href[1] ELSE card.href[1]

---------------------------------------------------------------------------
(* The Playwright script: main, one step per navigation and per card.      *)

\* lines 76-78
InitV4 ==
    /\ pc = "v4_goto"
    /\ founders_data = <<>>
    /\ file = <<>> /\ file_written = FALSE
    /\ IdleV4
    /\ driver = FALSE /\ IdleV3Only /\ IdleV1 /\ IdleV2 /\ IdleCls /\ IdleVel

\* the source main is working on
V4Source == IF "velocity" \in attempted THEN "velocity" ELSE "dmz"

\* lines 8-11 and 42-45: the listing page loads and its cards are found
V4Goto ==
    /\ pc = "v4_goto"
    /\ \E cards \in SeqsUpTo(DirCardPool, MaxListing) : startup_cards' = cards
    /\ attempted' = attempted \cup {IF attempted = {} THEN "dmz" ELSE "velocity"}
    /\ cardIdx' = 1
    /\ data' = <<>>
    /\ pc' = "v4_cards"
    /\ UNCHANGED <<file, file_written, dmz_data, raised, notV4>>

\* lines 8-9 and 42: page.goto or wait_for_load_state raises
V4GotoFails ==
    /\ pc = "v4_goto"
    /\ attempted' = attempted \cup {IF attempted = {} THEN "dmz" ELSE "velocity"}
    /\ raised' = Some([kind |-> "fetch",
                       source |-> IF attempted = {} THEN "dmz" ELSE "velocity"])
    /\ pc' = "v4_crashed"
    /\ UNCHANGED <<file, file_written, startup_cards, cardIdx, data, dmz_data, notV4>>

V4AtCard == pc = "v4_cards" /\ cardIdx <= Len(startup_cards)

\* lines 12-34 and 46-70: one card whose detail page is visited and whose
\* record is appended
V4Card ==
    /\ V4AtCard
    /\ LET card == startup_cards[cardIdx]
       IN  /\ IF V4Source = "dmz"
              THEN ~DmzCardRaises(card)
              ELSE ~VelocitySkips(card) /\ ~GotoRejects(card.href[1])
           /\ \E founders \in JoinedFounders(card) :
                 data' = Append(data, [name |-> Strip(card.title[1]), founders |-> founders])
    /\ cardIdx' = cardIdx + 1
    /\ UNCHANGED <<pc, file, file_written, startup_cards, dmz_data, attempted, raised, notV4>>

\* lines 49-50: scrape_velocity passes over a card without h3 or link
V4VelocitySkip ==
    /\ V4AtCard
    /\ V4Source = "velocity"
    /\ VelocitySkips(startup_cards[cardIdx])
    /\ cardIdx' = cardIdx + 1
    /\ UNCHANGED <<pc, file, file_written, startup_cards, data, dmz_data, attempted,
                   raised, notV4>>

\* lines 13 and 16: in scrape_dmz a card without h3.card-title or without
\* href raises AttributeError, which nothing catches
V4CardRaises ==
    /\ V4AtCard
    /\ V4Source = "dmz"
    /\ DmzCardRaises(startup_cards[cardIdx])
    /\ raised' = Some([kind |-> "candidate", source |-> V4Source])
    /\ pc' = "v4_crashed"
    /\ UNCHANGED <<file, file_written, startup_cards, cardIdx, data, dmz_data,
                   attempted, notV4>>

\* lines 20, 33-34, 56 and 69-70: a navigation to the detail page or back
\* to the listing raises (a relative link always does in scrape_velocity)
V4NavigationFails ==
    /\ V4AtCard
    /\ LET card == startup_cards[cardIdx]
       IN  IF V4Source = "dmz" THEN ~DmzCardRaises(card) ELSE ~VelocitySkips(card)
    /\ raised' = Some([kind |-> "navigate", source |-> V4Source])
    /\ pc' = "v4_crashed"
    /\ UNCHANGED <<file, file_written, startup_cards, cardIdx, data, dmz_data,
                   attempted, notV4>>

\* mutant of V4DmzReturns: main goes on to the next source while cards of
\* the directory are still to be visited
V4DmzReturnsEarly ==
    /\ pc = "v4_cards"
    /\ V4Source = "dmz"
    /\ dmz_data' = data
    /\ pc' = "v4_goto"
    /\ UNCHANGED <<file, file_written, startup_cards, cardIdx, data, attempted, raised, notV4>>

\* lines 36 and 80: scrape_dmz returns its data
V4DmzReturns ==
    /\ pc = "v4_cards"
    /\ cardIdx > Len(startup_cards)
    /\ V4Source = "dmz"
    /\ dmz_data' = data
    /\ pc' = "v4_goto"
    /\ UNCHANGED <<file, file_written, startup_cards, cardIdx, data, attempted, raised, notV4>>

\* lines 72 and 81-88: scrape_velocity returns and the CSV file is written
V4Save ==
    /\ pc = "v4_cards"
    /\ cardIdx > Len(startup_cards)
    /\ V4Source = "velocity"
    /\ file' = dmz_data \o data
    /\ file_written' = TRUE
    /\ pc' = "v4_done"
    /\ UNCHANGED <<startup_cards, cardIdx, data, dmz_data, attempted, raised, notV4>>

NextV4 ==
    \/ V4Goto
    \/ V4GotoFails
    \/ V4Card
    \/ V4VelocitySkip
    \/ V4CardRaises
    \/ V4NavigationFails
    \/ V4DmzReturns
    \/ V4Save

SpecV4 == InitV4 /\ [][NextV4]_vars

---------------------------------------------------------------------------
(* The line classifier of ImprovedStartupScraper on its own: the loop of   *)
(* lines 118-135 over the lines of one candidate, one step per line.       *)

\* stripped, non-empty lines an element text can hold (line 111)
LinePool ==
    { "Acme Robotics", "B2B", "Waterloo, ON", "Jane Doe, Co-Founder & CEO",
      "Toronto AI Labs", "Visit Company" }

\* lines 111-115
InitCls ==
    /\ pc = "cls_scan"
    /\ cand_lines \in SeqsUpTo(LinePool, MaxLines)
    /\ cand_i = 1
    /\ cand_info = NoInfo
    /\ founders_data = <<>>
    /\ file = <<>> /\ file_written = FALSE
    /\ driver = FALSE /\ IdleV3Only /\ IdleV1 /\ IdleV2 /\ IdleV4 /\ IdleVel

\* lines 118-135: one pass of the loop
ClsLine ==
    /\ pc = "cls_scan"
    /\ cand_i <= Len(cand_lines)
    /\ cand_info' = ClassifyLine(cand_info, cand_lines[cand_i])
    /\ cand_i' = cand_i + 1
    /\ UNCHANGED <<pc, cand_lines, notCls>>

\* line 118: the lines are exhausted
ClsDone ==
    /\ pc = "cls_scan"
    /\ cand_i > Len(cand_lines)
    /\ pc' = "cls_done"
    /\ UNCHANGED <<clsVars, notCls>>

NextCls == ClsLine \/ ClsDone

SpecCls == InitCls /\ [][NextCls]_vars

---------------------------------------------------------------------------
(* VelocityLinkedInScraper (velocity_scraper.py): the companies page and   *)
(* the collection of the company links.                                    *)

\* An a element of the companies page: its href (None when it has none), its
\* text, whether it lies inside a .company-card element, and whether it has
\* left the page by the time its attributes are read (get_attribute raises).
Anchor(href, text, inCard, detached) ==
    [href |-> href, text |-> text, inCard |-> inCard, detached |-> detached]

\* the a elements a companies page can hold, in document order
AnchorSeq ==
    << Anchor(Some("/company/acme"), "Acme Robotics", TRUE, FALSE),
       Anchor(Some("/company/delta"), "Delta", FALSE, TRUE),
       Anchor(Some("/companies/view/gamma"), "Gamma Works", FALSE, FALSE),
       Anchor(Some("/companies/omega"), "Omega", FALSE, FALSE),
       Anchor(Some("https://velocity.example/portfolio/beta"), "View company", FALSE, FALSE),
       Anchor(Some("/company/zeta"), "Zeta", TRUE, FALSE),
       Anchor(None, "Company news", FALSE, FALSE) >>

\* the pages made of at most n of these elements, document order kept
ListingPages(n) ==
    { SelectSeqBy(AnchorSeq, S) : S \in {T \in SUBSET Range(AnchorSeq) : Cardinality(T) <= n} }

\* lines 170-177
velocity_selectors ==
    << "a[href*=\"/company/\"]", "a[href*=\"/companies/\"]", ".company-card a",
       "[class*=\"company\"] a", "a:has-text(\"View\")", "a:has-text(\"Company\")" >>

\* page.locator(selector).all() for the selector at position k (line 182)
LocatorAll(dom, k) ==
    LET hit(a) ==
          CASE k = 1 -> a.href # None /\ Contains(a.href[1], "/company/")
            [] k = 2 -> a.href # None /\ Contains(a.href[1], "/companies/")
            [] k \in {3, 4} -> a.inCard
            [] k = 5 -> Contains(Lower(a.text), "view")
            [] k = 6 -> Contains(Lower(a.text), "company")
        RECURSIVE pick(_)
        pick(seq) == IF seq = <<>> THEN <<>>
                     ELSE (IF hit(Head(seq)) THEN <<Head(seq)>> ELSE <<>>) \o pick(Tail(seq))
    IN  pick(dom)

\* lines 186-187 and 201-202
VelocityBase == "https://www.velocityincubator.com"

AbsoluteUrl(href) == IF StartsWith(href, "/") THEN VelocityBase \o href ELSE href

\* lines 183-188: the loop over the links of one selector, appending to
\* company_links; raised when get_attribute raised on the way
RECURSIVE ScanSelectorLinks(_, _)
ScanSelectorLinks(links, acc) ==
    IF links = <<>> THEN [links |-> acc, raised |-> FALSE]
    ELSE IF Head(links).detached THEN [links |-> acc, raised |-> TRUE]
    ELSE IF /\ Head(links).href # None
            /\ Head(links).href[1] # ""
            /\ ContainsAny(Lower(Head(links).href[1]), {"company", "view"})
    THEN ScanSelectorLinks(Tail(links), Append(acc, AbsoluteUrl(Head(links).href[1])))
    ELSE ScanSelectorLinks(Tail(links), acc)

\* lines 180-192: the loop over the selectors from position k on; a selector
\* that raised is passed over (continue), one that leaves company_links
\* non-empty ends the loop (break)
RECURSIVE SelectorLoop(_, _, _, _)
SelectorLoop(dom, k, acc, seen) ==
    IF k > Len(velocity_selectors) THEN [links |-> acc, tried |-> seen]
    ELSE LET r == ScanSelectorLinks(LocatorAll(dom, k), acc)
         IN  IF ~r.raised /\ r.links # <<>>
             THEN [links |-> r.links, tried |-> seen \cup {k}]
             ELSE SelectorLoop(dom, k + 1, r.links, seen \cup {k})

\* lines 196-203: the scan over all a elements
RECURSIVE ScanAllLinks(_, _)
ScanAllLinks(links, acc) ==
    IF links = <<>> THEN [links |-> acc, raised |-> FALSE]
    ELSE IF Head(links).detached THEN [links |-> acc, raised |-> TRUE]
    ELSE IF /\ Head(links).href # None
            /\ Head(links).href[1] # ""
            /\ Head(links).text # ""
            /\ ContainsAny(Lower(Head(links).text), {"company", "view"})
    THEN ScanAllLinks(Tail(links), Append(acc, AbsoluteUrl(Head(links).href[1])))
    ELSE ScanAllLinks(Tail(links), acc)

\* lines 179-203: company_links before duplicates are removed, the selectors
\* evaluated, whether the scan over all links ran and whether it raised
CollectLinks(dom) ==
    LET bySelector == SelectorLoop(dom, 1, <<>>, {})
        byScan == ScanAllLinks(dom, <<>>)
    IN  IF bySelector.links # <<>>
        THEN [links |-> bySelector.links, tried |-> bySelector.tried,
              scanned |-> FALSE, raised |-> FALSE]
        ELSE [links |-> byScan.links, tried |-> bySelector.tried,
              scanned |-> TRUE, raised |-> byScan.raised]

---------------------------------------------------------------------------
(* VelocityLinkedInScraper: a company page and what process_company reads  *)
(* from it.  The regular expressions are computed character by character.  *)

\* s[a-1:b], the end clipped to the length of s as a Python slice is
Slice(s, a, b) == SubSeq(s, a, IF b > Len(s) THEN Len(s) ELSE b)

Digits == "0123456789"

IsDigit(c) == \E k \in 1..Len(Digits) : CharAt(Digits, k) = c

IsUpper(c) == \E k \in 1..Len(UpperCase) : CharAt(UpperCase, k) = c

IsLowerLetter(c) == \E k \in 1..Len(LowerCase) : CharAt(LowerCase, k) = c

\* \w, and \b at the gap before position i
IsWordChar(c) == IsAlpha(c) \/ IsDigit(c) \/ c = "_"

WordBoundary(s, i) ==
    (i > 1 /\ i - 1 <= Len(s) /\ IsWordChar(CharAt(s, i - 1)))
        # (i <= Len(s) /\ IsWordChar(CharAt(s, i)))

\* int() of the four digits at position i
YearAt(s, i) ==
    LET d(k) == (CHOOSE v \in 1..Len(Digits) : CharAt(Digits, v) = CharAt(s, k)) - 1
    IN  1000 * d(i) + 100 * d(i + 1) + 10 * d(i + 2) + d(i + 3)

\* \d{4} at position i
FourDigitsAt(s, i) ==
    i >= 1 /\ i + 3 <= Len(s) /\ \A k \in i..(i + 3) : IsDigit(CharAt(s, k))

\* [:\s]
IsSeparator(c) == c = ":" \/ IsSpace(c)

\* the position after the longest run, from position i on, of characters of
\* one class: \s+, [:\s]+ or [a-z]+
RECURSIVE RunEnd(_, _, _)
RunEnd(s, i, class) ==
    IF /\ i <= Len(s)
       /\ CASE class = "space" -> IsSpace(CharAt(s, i))
            [] class = "separator" -> IsSeparator(CharAt(s, i))
            [] class = "lower" -> IsLowerLetter(CharAt(s, i))
    THEN RunEnd(s, i + 1, class)
    ELSE i

\* re.findall(r'\b(202[3-5])\b', text) (lines 120 and 147), as integers
RECURSIVE RecentYears(_, _)
RecentYears(text, i) ==
    IF i + 3 > Len(text) THEN <<>>
    ELSE IF /\ Slice(text, i, i + 3) \in {"2023", "2024", "2025"}
            /\ WordBoundary(text, i) /\ WordBoundary(text, i + 4)
    THEN <<YearAt(text, i)>> \o RecentYears(text, i + 4)
    ELSE RecentYears(text, i + 1)

\* re.findall(keyword + r'[:\s]+(\d{4})', content, re.IGNORECASE)
\* (lines 133-135); low is content.lower()
RECURSIVE KeywordYears(_, _, _)
KeywordYears(low, keyword, i) ==
    IF i + Len(keyword) > Len(low) THEN <<>>
    ELSE LET j == i + Len(keyword)
             k == RunEnd(low, j, "separator")
         IN  IF Slice(low, i, j - 1) = keyword /\ k > j /\ FourDigitsAt(low, k)
             THEN <<YearAt(low, k)>> \o KeywordYears(low, keyword, k + 4)
             ELSE KeywordYears(low, keyword, i + 1)

\* re.findall(r'year\s+joined[:\s]+(\d{4})', content, re.IGNORECASE) (line 132)
RECURSIVE YearJoinedYears(_, _)
YearJoinedYears(low, i) ==
    IF i + 3 > Len(low) THEN <<>>
    ELSE LET j == RunEnd(low, i + 4, "space")
             k == RunEnd(low, j + 6, "separator")
         IN  IF /\ Slice(low, i, i + 3) = "year" /\ j > i + 4
                /\ j + 5 <= Len(low) /\ Slice(low, j, j + 5) = "joined"
                /\ k > j + 6 /\ FourDigitsAt(low, k)
             THEN <<YearAt(low, k)>> \o YearJoinedYears(low, k + 4)
             ELSE YearJoinedYears(low, i + 1)

\* re.findall(r'(\d{4})[:\s]*(?:joined|velocity|program)', content,
\* re.IGNORECASE) (line 136)
RECURSIVE LeadingYears(_, _)
LeadingYears(low, i) ==
    IF i + 3 > Len(low) THEN <<>>
    ELSE LET j == RunEnd(low, i + 4, "separator")
             ends == {j + Len(w) : w \in {w \in {"joined", "velocity", "program"} :
                                            /\ j + Len(w) - 1 <= Len(low)
                                            /\ Slice(low, j, j + Len(w) - 1) = w}}
         IN  IF FourDigitsAt(low, i) /\ ends # {}
             THEN <<YearAt(low, i)>> \o LeadingYears(low, Min(ends))
             ELSE LeadingYears(low, i + 1)

\* lines 131-137: the matches of the five join_patterns, pattern by pattern
JoinPatternYears(content) ==
    LET low == Lower(content)
    IN  YearJoinedYears(low, 1) \o KeywordYears(low, "joined", 1)
        \o KeywordYears(low, "velocity", 1) \o KeywordYears(low, "since", 1)
        \o LeadingYears(low, 1)

\* A company page: its title, its elements (text and class attribute) in
\* document order, the href attributes of its links, and its HTML content.
PageElement(text, class) == [text |-> text, class |-> class]

CompanyPage(title, elems, hrefs, content) ==
    [title |-> title, elems |-> elems, hrefs |-> hrefs, content |-> content]

\* the company page behind a company link
CompanyAt(url) ==
    CASE url = "https://www.velocityincubator.com/company/acme" ->
           CompanyPage("Acme Robotics | Velocity",
                       << PageElement("Year joined: 2024", "year"),
                          PageElement("Founder: Jane Doe", "team") >>,
                       << "https://www.linkedin.com/company/acme" >>,
                       "<p>Year joined: 2024</p><p>Founder: Jane Doe</p>")
      [] url = "https://www.velocityincubator.com/companies/view/gamma" ->
           CompanyPage("Gamma Works",
                       << PageElement("Joined Velocity in 2019", ""),
                          PageElement("CEO Mary Major, Co-Founder Li Wei", "leadership") >>,
                       <<>>,
                       "<p>Joined Velocity in 2019</p>")
      [] url = "https://velocity.example/portfolio/beta" ->
           CompanyPage(" | Velocity", <<>>, <<>>,
                       "<meta content=\"Year joined: 2021, since 2023\">")
      [] OTHER ->
           CompanyPage("Zeta", <<>>, << "https://linkedin.com/company/zeta" >>,
                       "(c) 2025 Zeta. Est. 2024")

\* what the HTML of a company page can hold after the elements above
ContentExtras ==
    {"", "<p>Joined: 2021</p>", "<p>since 2026</p>", "<p>2022 program</p>",
     "<footer>2025 Velocity</footer>"}

\* the pages a company URL can load
CompanyPagesAt(url) ==
    {[CompanyAt(url) EXCEPT !.content = @ \o extra] : extra \in ContentExtras}

\* lines 104-110: page.locator(selector).all() for the join-year selector at
\* position k
JoinYearElements(pg, k) ==
    LET after(text, word) ==
          \E i \in 1..Len(text) :
              /\ Slice(text, i, i + Len(word) - 1) = word
              /\ \E y \in {"2023", "2024", "2025"} :
                    Contains(Head(SplitLines(Slice(text, i + Len(word), Len(text)))), y)
        hit(e) ==
          CASE k = 1 -> Contains(Lower(e.text), "year joined")
            [] k = 2 -> after(Lower(e.text), "joined")
            [] k = 3 -> after(Lower(e.text), "velocity")
            [] k = 4 -> Contains(e.class, "year")
            [] k = 5 -> Contains(e.class, "joined")
        RECURSIVE pick(_)
        pick(seq) == IF seq = <<>> THEN <<>>
                     ELSE (IF hit(Head(seq)) THEN <<Head(seq)>> ELSE <<>>) \o pick(Tail(seq))
    IN  pick(pg.elems)

\* lines 113-124: the year of the first element, selector by selector, whose
\* text mentions joining or velocity and holds a year of 2023-2025
RECURSIVE JoinYearBySelector(_, _)
JoinYearBySelector(pg, k) ==
    IF k > 5 THEN None
    ELSE LET found == SelectSeq(JoinYearElements(pg, k),
                        LAMBDA e : /\ e.text # ""
                                   /\ ContainsAny(Lower(e.text), {"joined", "velocity"})
                                   /\ RecentYears(e.text, 1) # <<>>)
         IN  IF found # <<>> THEN Some(Head(RecentYears(Head(found).text, 1)))
             ELSE JoinYearBySelector(pg, k + 1)

\* JoinYearByPattern without the test of line 143
JoinYearByPatternUnchecked(content) ==
    IF JoinPatternYears(content) # <<>> THEN Some(Head(JoinPatternYears(content)))
    ELSE None

\* lines 139-144: the first match of the patterns that lies in 2023..2025
JoinYearByPattern(content) ==
    LET inRange == SelectSeq(JoinPatternYears(content), LAMBDA y : 2023 <= y /\ y <= 2025)
    IN  IF inRange # <<>> THEN Some(Head(inRange)) ELSE None

\* extract_velocity_join_year (lines 101-155): None, or Some(year)
ExtractVelocityJoinYear(pg) ==
    IF JoinYearBySelector(pg, 1) # None THEN JoinYearBySelector(pg, 1)
    ELSE IF JoinYearByPattern(pg.content) # None THEN JoinYearByPattern(pg.content)
    ELSE IF RecentYears(pg.content, 1) # <<>>
    THEN Some(Min(Range(RecentYears(pg.content, 1))))
    ELSE None

\* extract_company_name (lines 302-332).  'await page.locator(selector).first'
\* awaits a Locator, which raises TypeError for every selector of the loop
\* (lines 312-320), so the name always comes from page.title().
ExtractCompanyName(pg) ==
    IF pg.title # "" /\ Contains(pg.title, "|")
    THEN Strip(Slice(pg.title, 1, Min({i \in 1..Len(pg.title) : CharAt(pg.title, i) = "|"}) - 1))
    ELSE IF pg.title # "" THEN Strip(pg.title)
    ELSE "Unknown Company"

\* re.findall(r'\b([A-Z][a-z]+ (?:[A-Z]\. )?[A-Z][a-z]+)\b', text) and the
\* filter of line 373 (extract_names_from_text, lines 363-376)
RECURSIVE ExtractNamesFromText(_, _)
ExtractNamesFromText(text, i) ==
    IF i > Len(text) THEN <<>>
    ELSE LET a == RunEnd(text, i + 1, "lower")
             lastFrom(b) ==
               LET c == RunEnd(text, b + 1, "lower")
               IN  IF /\ b <= Len(text) /\ IsUpper(CharAt(text, b)) /\ c > b + 1
                      /\ WordBoundary(text, c)
                   THEN c ELSE 0
             withInitial ==
               IF /\ a + 3 <= Len(text) /\ IsUpper(CharAt(text, a + 1))
                  /\ Slice(text, a + 2, a + 3) = ". "
               THEN lastFrom(a + 4) ELSE 0
             stop == IF /\ WordBoundary(text, i) /\ IsUpper(CharAt(text, i)) /\ a > i + 1
                       /\ a <= Len(text) /\ CharAt(text, a) = " "
                    THEN (IF withInitial # 0 THEN withInitial ELSE lastFrom(a + 1))
                    ELSE 0
             match == Slice(text, i, stop - 1)
         IN  IF stop = 0 THEN ExtractNamesFromText(text, i + 1)
             ELSE (IF ContainsAny(Lower(match), {"company", "inc", "llc", "corp", "ltd"})
                   THEN <<>> ELSE <<match>>)
                  \o ExtractNamesFromText(text, stop)

\* lines 338-345: page.locator(selector).all() for the founder selector at
\* position k
FounderElements(pg, k) ==
    LET hit(e) ==
          CASE k = 1 -> Contains(Lower(e.text), "founder")
            [] k = 2 -> Contains(Lower(e.text), "co-founder")
            [] k = 3 -> Contains(Lower(e.text), "ceo")
            [] k = 4 -> Contains(e.class, "founder")
            [] k = 5 -> Contains(e.class, "team")
            [] k = 6 -> Contains(e.class, "leadership")
    IN  {e \in Range(pg.elems) : hit(e)}

\* extract_founders (lines 334-361): the members of set(...) at line 360
ExtractFounders(pg) ==
    LET texts == {e.text : e \in UNION {FounderElements(pg, k) : k \in 1..6}}
        names == UNION {Range(ExtractNamesFromText(t, 1)) : t \in texts \ {""}}
    IN  {Strip(n) : n \in {n \in names : Strip(n) # ""}}

\* extract_company_linkedin (lines 378-396): the first link, selector by
\* selector, whose href holds 'linkedin.com/company'
ExtractCompanyLinkedin(pg) ==
    LET matched == SelectSeq(pg.hrefs, LAMBDA h : Contains(h, "linkedin.com/company"))
                   \o SelectSeq(pg.hrefs, LAMBDA h : Contains(h, "linkedin.com/in"))
                   \o SelectSeq(pg.hrefs, LAMBDA h : Contains(h, "linkedin"))
    IN  FirstLink(matched, {"linkedin.com/company"})

---------------------------------------------------------------------------
(* VelocityLinkedInScraper: main, scrape_velocity_companies and            *)
(* process_company, one step per page opened, loaded or closed.            *)

\* ExportCell joining with ", " as the other scrapers do
ExportCellComma(values) == IF values # <<>> THEN Join(values, ", ") ELSE ""

\* lines 495-496: a list as the text of one cell
ExportCell(values) == IF values # <<>> THEN Join(values, "; ") ELSE ""

\* lines 498-502
ExportRow(company) ==
    [Company |-> company.Company,
     Founders |-> ExportCell(company.Founders),
     Linkedins |-> ExportCell(company.Linkedins)]

\* __init__ (lines 34-38) and the call of main (lines 521-523)
InitVel ==
    /\ pc = "vel_setup"
    /\ max_companies \in 0..MaxCap
    /\ anchors \in ListingPages(MaxAnchors)
    /\ tried = {} /\ company_links = <<>> /\ link_i = 1
    /\ successful_companies = 0 /\ company_page = None /\ company_data = None
    /\ companies_data = <<>>
    /\ progress = <<>> /\ open_pages = {} /\ logged = {}
    /\ founders_data = <<>> /\ file = <<>> /\ file_written = FALSE
    /\ driver = FALSE /\ page = <<>> /\ page_text = ""
    /\ selIdx = 1 /\ elements = <<>> /\ elemIdx = 1 /\ found_companies = <<>>
    /\ text_lines = <<>> /\ text_i = 1 /\ yielded = {} /\ classified = 0
    /\ IdleV1 /\ IdleV2 /\ IdleV4 /\ IdleCls

\* setup_browser (lines 49-81) returns
VelSetup ==
    /\ pc = "vel_setup"
    /\ pc' = "vel_open"
    /\ UNCHANGED <<file, file_written, max_companies, velVars, notVel>>

\* setup_browser raises (launch or new_context): nothing catches it and main
\* ends before anything is scraped
VelSetupFails ==
    /\ pc = "vel_setup"
    /\ pc' = "vel_crashed"
    /\ UNCHANGED <<file, file_written, max_companies, velVars, notVel>>

\* line 161: the page of scrape_velocity_companies is opened
VelNewPage ==
    /\ pc = "vel_open"
    /\ open_pages' = open_pages \cup {"companies"}
    /\ pc' = "vel_goto"
    /\ UNCHANGED <<file, file_written, max_companies, anchors, tried, company_links,
                   link_i, successful_companies, company_page, company_data,
                   companies_data, progress, logged, notVel>>

\* lines 166-167 raise: the handler of lines 238-239 logs the error
VelGotoFails ==
    /\ pc = "vel_goto"
    /\ logged' = logged \cup {"error scraping"}
    /\ pc' = "vel_finally"
    /\ UNCHANGED <<file, file_written, max_companies, anchors, tried, company_links,
                   link_i, successful_companies, company_page, company_data,
                   companies_data, progress, open_pages, notVel>>

\* lines 166-211: the page loads, the links are collected and duplicates
\* removed; list(set(...)) delivers them in any order
VelCollectLinks ==
    /\ pc = "vel_goto"
    /\ LET r == CollectLinks(anchors)
       IN  /\ tried' = r.tried
           /\ IF r.raised
              THEN /\ logged' = logged \cup {"error scraping"}
                   /\ pc' = "vel_finally"
                   /\ UNCHANGED company_links
              ELSE /\ company_links' \in SetOrders(Range(r.links))
                   /\ pc' = "vel_loop"
                   /\ UNCHANGED logged
    /\ link_i' = 1
    /\ successful_companies' = 0
    /\ UNCHANGED <<file, file_written, max_companies, anchors, company_page, company_data,
                   companies_data, progress, open_pages, notVel>>

\* lines 213-215: the target is reached
VelTargetReached ==
    /\ pc = "vel_loop"
    /\ link_i <= Len(company_links)
    /\ successful_companies >= max_companies
    /\ logged' = logged \cup {"reached target"}
    /\ pc' = "vel_finally"
    /\ UNCHANGED <<file, file_written, max_companies, anchors, tried, company_links,
                   link_i, successful_companies, company_page, company_data,
                   companies_data, progress, open_pages, notVel>>

\* line 212: no link is left
VelLinksDone ==
    /\ pc = "vel_loop"
    /\ link_i > Len(company_links)
    /\ pc' = "vel_finally"
    /\ UNCHANGED <<file, file_written, max_companies, velVars, notVel>>

\* VelProcessCompany with the test of line 213 passing a counter equal to the
\* target
VelProcessCompanyLate ==
    /\ pc = "vel_loop"
    /\ link_i <= Len(company_links)
    /\ successful_companies <= max_companies
    /\ open_pages' = open_pages \cup {"company"}
    /\ pc' = "vel_company"
    /\ UNCHANGED <<file, file_written, max_companies, anchors, tried, company_links,
                   link_i, successful_companies, company_page, company_data,
                   companies_data, progress, logged, notVel>>

\* lines 220 and 248: process_company opens its page
VelProcessCompany ==
    /\ pc = "vel_loop"
    /\ link_i <= Len(company_links)
    /\ successful_companies < max_companies
    /\ open_pages' = open_pages \cup {"company"}
    /\ pc' = "vel_company"
    /\ UNCHANGED <<file, file_written, max_companies, anchors, tried, company_links,
                   link_i, successful_companies, company_page, company_data,
                   companies_data, progress, logged, notVel>>

\* lines 251-252 raise: the handler of lines 295-297 returns None
VelCompanyFails ==
    /\ pc = "vel_company"
    /\ company_data' = None
    /\ logged' = logged \cup {"error processing"}
    /\ pc' = "vel_return"
    /\ UNCHANGED <<file, file_written, max_companies, anchors, tried, company_links,
                   link_i, successful_companies, company_page, companies_data,
                   progress, open_pages, notVel>>

\* lines 251-252: the page of the company loads
VelCompanyLoads ==
    /\ pc = "vel_company"
    /\ company_page' \in {Some(pg) : pg \in CompanyPagesAt(company_links[link_i])}
    /\ pc' = "vel_read"
    /\ UNCHANGED <<file, file_written, max_companies, anchors, tried, company_links,
                   link_i, successful_companies, company_data, companies_data,
                   progress, open_pages, logged, notVel>>

\* lines 254-293: the page is read; with a company LinkedIn URL and founders,
\* extract_founder_linkedins opens its page (line 403)
VelCompanyRead ==
    /\ pc = "vel_read"
    /\ LET pg == company_page[1]
           join_year == ExtractVelocityJoinYear(pg)
           company_name == ExtractCompanyName(pg)
           linkedin_url == ExtractCompanyLinkedin(pg)
       IN  IF join_year # None /\ join_year[1] < 2023
           THEN /\ logged' = logged \cup {"joined before 2023"}
                /\ open_pages' = open_pages \ {"company"}
                /\ company_data' = None
                /\ pc' = "vel_return"
           ELSE IF company_name = ""
           THEN /\ logged' = logged \cup {"no company name"}
                                   \cup (IF join_year = None THEN {"year unknown"} ELSE {})
                /\ company_data' = None
                /\ pc' = "vel_return"
                /\ UNCHANGED open_pages
           ELSE /\ logged' = logged \cup (IF join_year = None THEN {"year unknown"} ELSE {})
                /\ \E founders \in SetOrders(ExtractFounders(pg)) :
                      /\ company_data' = Some([Company |-> company_name,
                                               Founders |-> founders,
                                               Linkedins |-> <<>>])
                      /\ IF linkedin_url # None /\ founders # <<>>
                         THEN /\ open_pages' = open_pages \cup {"linkedin"}
                              /\ pc' = "vel_linkedin"
                         ELSE /\ pc' = "vel_return"
                              /\ UNCHANGED open_pages
    /\ UNCHANGED <<file, file_written, max_companies, anchors, tried, company_links,
                   link_i, successful_companies, company_page, companies_data,
                   progress, notVel>>

\* extract_founder_linkedins (lines 403-467): goto raises (lines 461-462), or
\* the page loads and no People tab is clicked, because
\* 'await page.locator(selector).first' raises TypeError for every selector
\* (lines 420-433); both ways the page is closed and [] is returned
VelLinkedinReturns ==
    /\ pc = "vel_linkedin"
    /\ \E message \in {"error linkedin", "no people tab"} :
          logged' = logged \cup {message}
    /\ open_pages' = open_pages \ {"linkedin"}
    /\ pc' = "vel_return"
    /\ UNCHANGED <<file, file_written, max_companies, anchors, tried, company_links,
                   link_i, successful_companies, company_page, company_data,
                   companies_data, progress, notVel>>

\* VelCompanyReturns without the finally clause of lines 299-300
VelCompanyReturnsPageLeftOpen ==
    /\ pc = "vel_return"
    /\ UNCHANGED open_pages
    /\ IF company_data # None
       THEN /\ companies_data' = Append(companies_data, company_data[1])
            /\ successful_companies' = successful_companies + 1
            /\ progress' = companies_data'
            /\ UNCHANGED logged
       ELSE /\ logged' = logged \cup {"skipped"}
            /\ UNCHANGED <<companies_data, successful_companies, progress>>
    /\ company_page' = None
    /\ company_data' = None
    /\ link_i' = link_i + 1
    /\ pc' = "vel_loop"
    /\ UNCHANGED <<file, file_written, max_companies, anchors, tried, company_links,
                   notVel>>

\* lines 299-300 and 221-236: process_company closes its page and returns;
\* a record is appended, counted and saved with save_progress (lines 469-481)
VelCompanyReturns ==
    /\ pc = "vel_return"
    /\ open_pages' = open_pages \ {"company"}
    /\ IF company_data # None
       THEN /\ companies_data' = Append(companies_data, company_data[1])
            /\ successful_companies' = successful_companies + 1
            /\ progress' = companies_data'
            /\ UNCHANGED logged
       ELSE /\ logged' = logged \cup {"skipped"}
            /\ UNCHANGED <<companies_data, successful_companies, progress>>
    /\ company_page' = None
    /\ company_data' = None
    /\ link_i' = link_i + 1
    /\ pc' = "vel_loop"
    /\ UNCHANGED <<file, file_written, max_companies, anchors, tried, company_links,
                   notVel>>

\* lines 241-244: the page of scrape_velocity_companies is closed and
\* companies_data returned
VelFinally ==
    /\ pc = "vel_finally"
    /\ open_pages' = open_pages \ {"companies"}
    /\ pc' = "vel_export"
    /\ UNCHANGED <<file, file_written, max_companies, anchors, tried, company_links,
                   link_i, successful_companies, company_page, company_data,
                   companies_data, progress, logged, notVel>>

\* export_to_excel (lines 483-514), called at line 526
VelExport ==
    /\ pc = "vel_export"
    /\ pc' = "vel_done"
    /\ IF companies_data = <<>>
       THEN /\ logged' = logged \cup {"no data"}
            /\ UNCHANGED <<file, file_written>>
       ELSE /\ file' = [k \in 1..Len(companies_data) |-> ExportRow(companies_data[k])]
            /\ file_written' = TRUE
            /\ UNCHANGED logged
    /\ UNCHANGED <<max_companies, anchors, tried, company_links, link_i,
                   successful_companies, company_page, company_data,
                   companies_data, progress, open_pages, notVel>>

NextVel ==
    \/ VelSetup \/ VelSetupFails \/ VelNewPage \/ VelGotoFails \/ VelCollectLinks
    \/ VelTargetReached \/ VelLinksDone \/ VelProcessCompany \/ VelCompanyFails
    \/ VelCompanyLoads \/ VelCompanyRead \/ VelLinkedinReturns \/ VelCompanyReturns \/ VelFinally
    \/ VelExport

SpecVel == InitVel /\ [][NextVel]_vars

---------------------------------------------------------------------------
(* Properties.                                                             *)

\* a company name lowercased, trimmed, runs of whitespace collapsed
RECURSIVE CollapseSpaces(_)
CollapseSpaces(s) ==
    IF Len(s) <= 1 THEN s
    ELSE IF IsSpace(CharAt(s, 1)) /\ IsSpace(CharAt(s, 2))
    THEN CollapseSpaces(SubSeq(s, 2, Len(s)))
    ELSE (IF IsSpace(CharAt(s, 1)) THEN " " ELSE CharAt(s, 1))
         \o CollapseSpaces(SubSeq(s, 2, Len(s)))

NormName(s) == CollapseSpaces(Strip(Lower(s)))

\* the candidate the element loop of ImprovedStartupScraper is about to process
V3HasCandidate ==
    /\ pc = "v3_elements"
    /\ elemIdx <= Len(Take(elements, ElementLimit))
    /\ ~elements[elemIdx].stale
    /\ Len(Strip(elements[elemIdx].text)) >= MinElementText

V3Candidate == Classify(Strip(elements[elemIdx].text))

C3_FirstYieldingSelectorWins == Cardinality(yielded) <= 1

\* C3 (amended): the selectors are tried in their listed order and each one
\* is tried, whether or not an earlier one yielded candidates: the position
\* moves one selector at a time, and the loop is left for the text fallback
\* or the save only past the last selector or by the cap's return.
C3_EverySelectorTriedInOrder ==
    /\ [][selIdx' = selIdx \/ selIdx' = selIdx + 1]_vars
    /\ [][(pc = "v3_selectors" /\ pc' # "v3_selectors" /\ pc' # "v3_elements")
          => selIdx = Len(company_selectors) + 1]_vars
    /\ [][(pc = "v3_elements" /\ pc' = "v3_save")
          => Len(founders_data') >= max_companies]_vars

\* C3 witness: two selectors have yielded candidates and both added a record.
C3_Witness ==
    /\ Cardinality(yielded) >= 2
    /\ Len(founders_data) >= 2
    /\ pc = "v3_done"

\* C7: with max_companies >= 1 the result list never holds more than
\* max_companies records, and once it holds max_companies no further
\* candidate or fallback line is classified or appended.
C7_CapNeverExceeded ==
    /\ [](max_companies >= 1 => Len(founders_data) <= max_companies)
    /\ [][(max_companies >= 1 /\ Len(founders_data) >= max_companies)
          => (founders_data' = founders_data /\ classified' = classified)]_vars

\* C7 witness: the cap stopped a run that still had selectors to try.
C7_Witness ==
    /\ pc = "v3_done"
    /\ max_companies >= 1
    /\ Len(founders_data) = max_companies
    /\ selIdx <= Len(company_selectors)
    /\ elemIdx < Len(elements)

RECURSIVE IsSubseq(_, _)
IsSubseq(a, b) ==
    IF a = <<>> THEN TRUE
    ELSE IF b = <<>> THEN FALSE
    ELSE IF Head(a) = Head(b) THEN IsSubseq(Tail(a), Tail(b))
    ELSE IsSubseq(a, Tail(b))

\* C6: when a run is aborted, every record of a source that was completed
\* before the abort is in the output file.
C6_CompletedSourcesSavedAtAbort ==
    pc = "v1_aborted" =>
        \A k \in 1..Len(founders_data) : founders_data[k] \in Range(file)

\* C8: the region filter runs once per run, after the last source and before
\* the save; what it leaves is an order-preserving subsequence of the list
\* it was given, made of the same records, and that is what is saved.
C8_FilterOncePureSubsequence ==
    /\ [](filterRuns <= 1 /\ (pc \in {"v1_save", "v1_done"} => filterRuns = 1))
    /\ [][filterRuns' # filterRuns
          => /\ srcIdx > Len(V1Sources)
             /\ ~file_written
             /\ IsSubseq(founders_data', founders_data)]_vars
    /\ [][filterRuns >= 1 => founders_data' = founders_data]_vars
    /\ [][file_written' # file_written => (filterRuns = 1 /\ file' = founders_data)]_vars

\* C8 witness: a finished run whose filter kept a record and dropped another.
C8_Witness ==
    /\ pc = "v1_done"
    /\ filterRuns = 1
    /\ file_written
    /\ Len(file) >= 1
    /\ Len(file) < appended

\* C2: every record in the result list has a non-empty company name or a
\* non-empty founder name; a candidate with both empty produces no record.
C2_RecordsHaveAName ==
    \A k \in 1..Len(founders_data) :
        founders_data[k].company_name # "" \/ founders_data[k].founder_name # ""

\* C4: when the fetch of one source has failed, the run still attempts every
\* later source and ends by saving the records of the earlier sources.
C4_FetchFailureAbandonsOnlyThatSource ==
    (pc \in {"v4_done", "v4_crashed"} /\ raised # None /\ raised[1].kind = "fetch")
    => /\ attempted = Range(V4Sources)
       /\ file_written
       /\ \A k \in 1..Len(dmz_data) : dmz_data[k] \in Range(file)

\* C5: when processing one candidate has raised, the candidates after it on
\* the page are still processed and the records of the earlier candidates
\* are kept in the output.
C5_CandidateFailureSkipsOnlyThatCandidate ==
    (pc \in {"v4_done", "v4_crashed"} /\ raised # None /\ raised[1].kind = "candidate")
    => /\ cardIdx > Len(startup_cards)
       /\ \A k \in 1..Len(data) : data[k] \in Range(file)

\* a record's location names the target region
LocationInRegion(founder) ==
    /\ "location" \in DOMAIN founder
    /\ ContainsAny(Lower(founder.location), waterloo_keywords_v2)

\* none of a record's company name, location and source names the region
NothingInRegion(founder) ==
    /\ ~ContainsAny(Lower(founder.company_name), waterloo_keywords_v2)
    /\ ~ContainsAny(Lower(founder.source), waterloo_keywords_v2)
    /\ ~LocationInRegion(founder)

\* C9: the region filter keeps every record whose location contains a
\* target-region keyword and drops every record whose company name,
\* location and source label contain none.
C9_FilterKeepsRegionLocation ==
    [][filterRuns' # filterRuns
       => \A k \in 1..Len(founders_data) :
             /\ LocationInRegion(founders_data[k])
                => founders_data[k] \in Range(founders_data')
             /\ NothingInRegion(founders_data[k])
                => founders_data[k] \notin Range(founders_data')]_vars

\* the lines scanned so far that are not stop words, are longer than the
\* minimum and shorter than the maximum, and pass the category check
NameLines ==
    {k \in 1..(cand_i - 1) :
        /\ Lower(cand_lines[k]) \notin StopWords
        /\ Len(cand_lines[k]) > MinNameLen /\ Len(cand_lines[k]) < MaxNameLen
        /\ ~ContainsAny(Lower(cand_lines[k]), Categories)}

\* C13: during the scan of one candidate the company name is assigned at
\* most once: it is the first line that is no stop word, has a length
\* between the limits and passes the category check, and no later line
\* changes it.
C13_NameAssignedOnce ==
    /\ [](cand_info.company_name =
             IF NameLines = {} THEN "" ELSE cand_lines[Min(NameLines)])
    /\ [][cand_info.company_name # ""
          => cand_info'.company_name = cand_info.company_name]_vars

\* C13 witness: a scanned candidate with two different qualifying lines,
\* named after the first.
C13_Witness ==
    /\ pc = "cls_done"
    /\ \E j, k \in NameLines :
          /\ j < k
          /\ cand_lines[j] # cand_lines[k]
          /\ cand_info.company_name = cand_lines[j]

\* C11: at most one fetch is in progress: the listing page of the next
\* source is requested only after every card of the previous listing has
\* been handled and its data returned, and the cards of a listing are
\* visited one at a time, in order.
C11_OneFetchAtATime ==
    /\ [][attempted' # attempted
          => /\ pc = "v4_goto"
             /\ attempted # {} => (cardIdx > Len(startup_cards) /\ dmz_data = data)]_vars
    /\ [][(pc = "v4_cards" /\ cardIdx' # cardIdx) => cardIdx' = cardIdx + 1]_vars

\* C11 witness: the second listing is being worked on after a first listing
\* with a visited card.
C11_Witness ==
    /\ pc = "v4_cards"
    /\ attempted = {"dmz", "velocity"}
    /\ Len(dmz_data) >= 1
    /\ cardIdx > 1

\* the sources AdvancedStartupScraper reads through the browser
BrowserSources == {"AngelList", "F6S", "DMZ Startup Directory"}

\* C12 (as stated): when the browser has failed to start the run aborts at
\* once: no source is fetched or processed afterwards.
C12_StartFailureAborts ==
    [][(~driver /\ srcIdx' # srcIdx)
       => (V2Sources[srcIdx] \in BrowserSources /\ founders_data' = founders_data)]_vars

\* C12 (amended): when the browser has failed to start, the run goes on
\* without it: the methods that read through the browser return without a
\* record, the other sources are still fetched and processed, and the run
\* ends with the filter and the save.
C12_StartFailureSkipsBrowserSources ==
    /\ [][(~driver /\ srcIdx' # srcIdx /\ V2Sources[srcIdx] \in BrowserSources)
          => UNCHANGED <<founders_data, appended, termIdx>>]_vars
    /\ [](~driver /\ pc = "v2_done" => srcIdx > Len(V2Sources) /\ filterRuns = 1)
    /\ [](~driver => \A k \in 1..Len(founders_data) :
                        founders_data[k].source \notin BrowserSources)

\* C12 witness: a run without browser that has saved a record of a source
\* fetched with requests.
C12_Witness ==
    /\ ~driver
    /\ pc = "v2_done"
    /\ file_written
    /\ \E k \in 1..Len(file) : file[k].source = "Velocity Fund"

\* the lines scanned so far that are not stop words, have a length between
\* the limits and are not, as a whole, a category token
NotACategoryLines ==
    {k \in 1..(cand_i - 1) :
        /\ Lower(cand_lines[k]) \notin StopWords
        /\ Len(cand_lines[k]) > MinNameLen /\ Len(cand_lines[k]) < MaxNameLen
        /\ Lower(cand_lines[k]) \notin Categories}

\* C14: the category check rejects a line as company name only when the
\* whole line is a category token: the name is the first line that is no
\* stop word, has a length between the limits and is not itself a token,
\* also when it contains a token as part of a longer name.
C14_CategoryCheckIsWholeLine ==
    cand_info.company_name =
        IF NotACategoryLines = {} THEN "" ELSE cand_lines[Min(NotACategoryLines)]

\* C15: the location of a candidate is the first of its lines that names a
\* place: once a location is stored, no later line replaces it.
C15_FirstLocationWins ==
    [][cand_info.location # "" => cand_info'.location = cand_info.location]_vars

\* C16: each line that is not a stop word gets the first of the rules
\* (company name, location, role) whose conditions it satisfies: a line that
\* does not satisfy the company-name conditions is still tested against the
\* location rule and then the role rule, and every line reaching the role rule
\* with a role keyword is appended to the founder list, in line order.
C16_FirstSatisfiedRuleApplies ==
    [][cand_i' = cand_i + 1 =>
        LET line == cand_lines[cand_i]
            isName == /\ cand_info.company_name = ""
                      /\ Len(line) > MinNameLen /\ Len(line) < MaxNameLen
                      /\ ~ContainsAny(Lower(line), Categories)
        IN  cand_info' =
              IF Lower(line) \in StopWords THEN cand_info
              ELSE IF isName THEN [cand_info EXCEPT !.company_name = line]
              ELSE IF ContainsAny(Lower(line), Cities)
                   THEN [cand_info EXCEPT !.location = line]
              ELSE IF ContainsAny(Lower(line), Titles)
                   THEN [cand_info EXCEPT
                            !.founder_names = Append(@, line)]
              ELSE cand_info]_vars

\* the candidate lines of the element the loop is about to process
V3CandidateLines == StrippedNonEmpty(SplitLines(Strip(elements[elemIdx].text)))

\* C17: the candidate with the lines "Acme Robotics", "B2B", "Waterloo, ON",
\* "Jane Doe, Co-Founder & CEO" classifies to the company name "Acme Robotics",
\* the location "Waterloo, ON" and exactly one founder entry, the fourth line.
C17_AcmeRoboticsScenario ==
    (/\ V3HasCandidate
     /\ V3CandidateLines = <<"Acme Robotics", "B2B", "Waterloo, ON",
                             "Jane Doe, Co-Founder & CEO">>)
    => V3Candidate = [company_name |-> "Acme Robotics",
                      location |-> "Waterloo, ON",
                      founder_names |-> <<"Jane Doe, Co-Founder & CEO">>]

C17_Witness ==
    /\ V3HasCandidate
    /\ Len(V3CandidateLines) = 4
    /\ V3CandidateLines[2] = "B2B"
    /\ Len(V3Candidate.founder_names) = 1

\* the element loop is at an element it has not looked at yet
V3AtElement ==
    pc = "v3_elements" /\ elemIdx <= Len(Take(elements, ElementLimit))

\* C18 (as stated): an element is processed as a candidate only if its trimmed
\* text is strictly longer than the threshold of 20 characters; an element of
\* exactly 20 characters is skipped.
C18_ExactlyThresholdSkipped ==
    [][(V3AtElement /\ classified' # classified)
        => Len(Strip(elements[elemIdx].text)) > MinElementText]_vars

\* C18 (amended): an element is processed as a candidate exactly when its
\* text can be read and its trimmed text has at least 20 characters; an
\* element of exactly 20 characters is processed, one of 19 is skipped.
C18_AtLeastThresholdProcessed ==
    [][(V3AtElement /\ (elemIdx' # elemIdx \/ pc' # pc))
        => IF /\ ~elements[elemIdx].stale
              /\ Len(Strip(elements[elemIdx].text)) >= MinElementText
           THEN classified' = classified + 1 /\ selIdx \in yielded'
           ELSE classified' = classified /\ yielded' = yielded
                /\ founders_data' = founders_data]_vars

C18_Witness ==
    /\ pc = "v3_elements" /\ elemIdx = 2
    /\ ~elements[1].stale
    /\ Len(Strip(elements[1].text)) = MinElementText
    /\ classified = 1
    /\ Len(found_companies) = 1

\* the selector loop has ended and the test of line 170 is next
V3SelectorsExhausted ==
    pc = "v3_selectors" /\ selIdx > Len(company_selectors)

\* C19 (as stated): the full-page line scan is entered when no selector
\* yielded a candidate, and is not entered when some selector yielded at least
\* one candidate that passed the length test.
C19_FallbackIffNoCandidate ==
    [][(V3SelectorsExhausted /\ pc' # pc)
        => (pc' = "v3_text" <=> yielded = {})]_vars

\* C19 (amended): the full-page line scan is entered exactly when the selector
\* loop ended without adding a record, which includes every run in which no
\* selector yielded a candidate and also the runs in which every candidate
\* was rejected; it is entered from nowhere else.
C19_FallbackIffNoRecordAdded ==
    /\ [][(V3SelectorsExhausted /\ pc' # pc)
           => (pc' = "v3_text" <=> found_companies = <<>>)]_vars
    /\ [][(V3SelectorsExhausted /\ pc' # pc /\ yielded = {})
           => pc' = "v3_text"]_vars
    /\ [][(pc # "v3_text" /\ pc' = "v3_text") => V3SelectorsExhausted]_vars

C19_Witness ==
    /\ pc = "v3_text"
    /\ yielded # {}
    /\ classified > 0
    /\ found_companies = <<>>

\* the positions of the absolute http(s) links that are not social-host URLs
NonSocialLinks(links) ==
    {k \in 1..Len(links) : /\ StartsWith(links[k], "http")
                           /\ ~ContainsAny(links[k], SocialHosts)}

\* C20: a record holds at most one value per contact channel, the first link
\* of its candidate of that kind; the website is the first absolute http(s)
\* link of the candidate that is not a linkedin.com, twitter.com or x.com URL
\* whenever the candidate has such a link, and is never a URL of those hosts.
C20_WebsiteIsFirstNonSocialLink ==
    \A k \in 1..Len(founders_data) :
        LET r == founders_data[k]
        IN  \A c \in PoolV2(r.source) :
                ExtractV2(c, r.source) = <<r>> =>
                    IF NonSocialLinks(c.links) = {}
                    THEN "website" \notin DOMAIN r.contact_info
                    ELSE /\ "website" \in DOMAIN r.contact_info
                         /\ r.contact_info.website = c.links[Min(NonSocialLinks(c.links))]

\* lines 137-151 applied to a record that is submitted again: it is appended
\* unless a record of the same company name is in the list
SubmitRecord(list, rec) ==
    IF /\ rec.company_name # "" /\ rec.location # ""
       /\ ContainsAny(Lower(rec.location), TargetRegions)
       /\ ~AlreadyFound(list, rec.company_name)
    THEN Append(list, rec)
    ELSE list

RECURSIVE SubmitAll(_, _)
SubmitAll(list, recs) ==
    IF recs = <<>> THEN list
    ELSE SubmitAll(SubmitRecord(list, Head(recs)), Tail(recs))

C29_RecordsUniqueNamedInRegion ==
    /\ \A i, j \in 1..Len(founders_data) :
          i < j => founders_data[i].company_name # founders_data[j].company_name
    /\ \A k \in 1..Len(founders_data) :
          /\ founders_data[k].company_name # ""
          /\ ContainsAny(Lower(founders_data[k].location), TargetRegions)

\* one element, matched by two selectors and classified twice, gave one record
C29_Witness ==
    /\ pc = "v3_done"
    /\ Len(page) = 1
    /\ Cardinality(yielded) >= 2
    /\ Len(founders_data) = 1

\* the text of the first name selector, in list order, that matches an
\* element with non-empty text; selectors matching no element are passed over
RECURSIVE FirstNameText(_, _)
FirstNameText(names, k) ==
    IF k > Len(name_selectors) THEN ""
    ELSE IF names[k] # None /\ Strip(names[k][1]) # "" THEN Strip(names[k][1])
    ELSE FirstNameText(names, k + 1)

\* C30: extract_dmz_info assigns as company name the text of the first name
\* selector, in list order, that matches an element with non-empty text, also
\* when earlier selectors of the list match no element at all.
C30_NameFromFirstMatchingSelector ==
    \A k \in 1..Len(founders_data) :
        founders_data[k].source = "DMZ Startup Directory" =>
            \A el \in DmzPool :
                ExtractDmzInfo(el) = <<founders_data[k]>>
                => founders_data[k].company_name = FirstNameText(el.names, 1)

\* C23: role-keyword matching ignores letter case: when a card's record is
\* appended, every text of its detail page that contains "founder" in any
\* letter case is among the founder entries of the record.
C23_RoleMatchIgnoresCase ==
    [][(V4AtCard /\ Len(data') = Len(data) + 1)
        => \A k \in 1..Len(startup_cards[cardIdx].detail) :
              LET text == Strip(startup_cards[cardIdx].detail[k])
              IN  Contains(Lower(text), "founder")
                  => Contains(data'[Len(data')].founders, text)]_vars

\* C25: scrape_velocity_companies, started with an empty companies_data,
\* appends at most max_companies records; the success counter equals the
\* number of records appended; a company page is open for processing only
\* while the counter is below max_companies, so never when max_companies = 0.
C25_AtMostMaxCompanies ==
    /\ Len(companies_data) <= max_companies
    /\ successful_companies = Len(companies_data)
    /\ "company" \in open_pages => successful_companies < max_companies

\* the target is reached with links left over
C25_Witness ==
    /\ pc = "vel_done"
    /\ max_companies >= 1
    /\ Len(companies_data) = max_companies
    /\ link_i <= Len(company_links)

InProcessCompany == pc \in {"vel_company", "vel_read", "vel_linkedin", "vel_return"}

\* C28: every page opened by scrape_velocity_companies, process_company or
\* extract_founder_linkedins is open only while the function that opened it
\* is active, whichever way that function is left; once
\* scrape_velocity_companies has returned no page is open.
C28_PagesClosedOnEveryExit ==
    /\ "linkedin" \in open_pages => pc = "vel_linkedin"
    /\ "company" \in open_pages => InProcessCompany
    /\ "companies" \in open_pages
       => InProcessCompany \/ pc \in {"vel_goto", "vel_loop", "vel_finally"}
    /\ pc \in {"vel_export", "vel_done"} => open_pages = {}

\* a run is over in which process_company raised for one company and
\* returned a record, after a visit of LinkedIn, for another
C28_Witness ==
    /\ pc = "vel_done"
    /\ open_pages = {}
    /\ {"error processing", "no people tab"} \subseteq logged
    /\ companies_data # <<>>

\* C24: every record VelocityLinkedInScraper collects belongs to a company
\* whose join year was determined and is 2023 or later; a company whose year
\* is earlier or could not be determined gets no record.
C24_RecordsJoinedFrom2023 ==
    company_data # None
    => /\ company_page # None
       /\ ExtractVelocityJoinYear(company_page[1]) # None
       /\ ExtractVelocityJoinYear(company_page[1])[1] >= 2023

\* the accepted links the selector at position k yields on its own
AcceptedLinks(dom, k) == ScanSelectorLinks(LocatorAll(dom, k), <<>>).links

\* the selectors that yield at least one accepted link
YieldingSelectors(dom) ==
    {k \in 1..Len(velocity_selectors) : AcceptedLinks(dom, k) # <<>>}

\* C26: once scrape_velocity_companies has collected its links, the selectors
\* were evaluated in list order up to the first one that yields an accepted
\* link and no further, the company links are the links of that selector
\* alone, and the scan over all links of the page ran only when no selector
\* yielded an accepted link.
C26_LinksFromFirstYieldingSelector ==
    (tried # {} /\ "error scraping" \notin logged)
    => LET yielding == YieldingSelectors(anchors)
       IN  IF yielding # {}
           THEN /\ tried = 1..Min(yielding)
                /\ Range(company_links) = Range(AcceptedLinks(anchors, Min(yielding)))
                /\ ~CollectLinks(anchors).scanned
           ELSE /\ tried = 1..Len(velocity_selectors)
                /\ Range(company_links) = Range(CollectLinks(anchors).links)
                /\ CollectLinks(anchors).scanned

\* str.split(sep)
RECURSIVE SplitOn(_, _)
SplitOn(s, sep) ==
    LET at == {i \in 1..Len(s) : Slice(s, i, i + Len(sep) - 1) = sep}
    IN  IF at = {} THEN <<s>>
        ELSE <<SubSeq(s, 1, Min(at) - 1)>> \o SplitOn(SubSeq(s, Min(at) + Len(sep), Len(s)), sep)

\* C22: for every exported record, splitting the Founders and the Linkedins
\* cell on "; " recovers the set of values of the record's list, the empty
\* list included.
C22_SplitRecoversValues ==
    file_written =>
        \A k \in 1..Len(file) :
            /\ Range(SplitOn(file[k].Founders, "; ")) = Range(companies_data[k].Founders)
            /\ Range(SplitOn(file[k].Linkedins, "; ")) = Range(companies_data[k].Linkedins)

\* C22 as the export has it: a cell written from a non-empty list splits on
\* "; " into the set of values of the list; an empty list is written as the
\* empty cell, which splits into one empty string and not into no value.
C22_SplitRecoversNonEmptyLists ==
    file_written =>
        \A k \in 1..Len(file) :
            \A field \in {"Founders", "Linkedins"} :
                LET values == companies_data[k][field]
                    cell == file[k][field]
                IN  IF values # <<>>
                    THEN Range(SplitOn(cell, "; ")) = Range(values)
                    ELSE cell = "" /\ SplitOn(cell, "; ") = <<"">>

\* a record with two founders and no LinkedIn URL has been exported
C22_Witness ==
    /\ file_written
    /\ \E k \in 1..Len(file) :
          /\ Len(companies_data[k].Founders) = 2
          /\ companies_data[k].Linkedins = <<>>
          /\ file[k].Linkedins = ""

===========================================================================
